---- MODULE Spec2Model ----
(***************************************************************************)
(* Model of the tiered memory of the email priority agent:                 *)
(* src/email-priority-agent/src/memory/cognitive_memory.py                 *)
(*   MemoryNode, MemoryController, CognitiveMemorySystem.                  *)
(*                                                                         *)
(* Units.  importance_score and decay_rate are in tenths (0.7 is 7),       *)
(* cosine similarities and link strengths in hundredths (0.85 is 85),      *)
(* activations in 10^-7 (0.1 is 1000000), wall-clock time in minutes.      *)
(*                                                                         *)
(* Objects.  MemoryNode instances are mutable and shared by reference: the *)
(* model keeps them in heap (object id -> fields); the tiers, the lists a  *)
(* consolidation pass holds and the candidates a retrieval holds are       *)
(* sequences of object ids.  An object no list refers to is dropped from   *)
(* the heap, as the interpreter frees it.                                  *)
(***************************************************************************)
EXTENDS Integers, Sequences, FiniteSets, TLC

\* ---------------------------------------------------------------- bounds
\* deque(maxlen=20) of the Working tier, scaled down.
WorkingMaxLen == 2
\* MemoryController.working_memory_size (default 20), scaled as WorkingMaxLen.
DefaultWorkingSize == 2
\* MemoryController.short_term_size (default 100), scaled down.
DefaultShortTermSize == 1
\* MemoryNode objects created in one behaviour.
MaxStores == 3
\* retrieve_relevant_memories calls in one behaviour.
MaxRetrievals == 1
\* clock advances in one behaviour.
MaxAdvances == 2

\* ------------------------------------------------------ program constants
\* consolidation_interval: 300 seconds.
DefaultInterval == 300
\* asyncio.sleep(60) of the consolidation loop, in minutes.
PollMinutes == 1
\* timedelta.seconds is the seconds part of the difference, below one day.
DayMinutes == 1440
\* importance_score > 0.7, in tenths.
PersistImportance == 7
\* access_count > 5.
PersistAccess == 5
\* similarity > 0.7, in hundredths.
LinkThreshold == 70
\* decay_rate: float = 0.1, in tenths.
DefaultDecay == 1
\* importance: float = 0.5, in tenths.
DefaultImportance == 5

\* ------------------------------------------------------------ value sets
MessageIds == {1, 2}
\* A Short-Term node of the start state has the id of its place.
SeedIds == 1 .. MaxStores
Importances == {4, 8}
\* (importance_score, access_count) of a seeded Short-Term node.
SeedProfiles == {<<8, 1>>, <<7, 5>>, <<4, 6>>, <<4, 2>>}
\* Embedding classes; NoEmbedding is embedding = None.
NoEmbedding == 0
Embeddings == {1, 2}
\* The message for whose text create_embedding returns None.
AbsentMessage == 8
\* create_embedding(text_content): the text of message m embeds to class m.
CreateEmbedding(m) == IF m = AbsentMessage THEN NoEmbedding ELSE m
\* Minutes the clock advances by: a poll of the loop, the interval.
TimeSteps == {1, 5}
\* k of a retrieval.
Ks == {1}

\* An embedding of norm 0, and the message whose text embeds to it.
ZeroEmbedding == 9
ZeroMessage == ZeroEmbedding
\* nan: np.dot(a, b) / (norm(a) * norm(b)) is 0.0 / 0.0 when a norm is 0,
\* which numpy evaluates to nan with a warning, not an exception.
NaN == -200

\* Cosine similarity of two embedding classes, in hundredths.
Similarity(a, b) ==
    IF a = ZeroEmbedding \/ b = ZeroEmbedding THEN NaN
    ELSE IF a = b THEN 100
    ELSE IF {a, b} = {1, 2} THEN 85
    ELSE IF {a, b} = {1, 3} THEN 50
    ELSE 70

\* ------------------------------------------------------------- sequences
Range(s) == {s[i] : i \in 1 .. Len(s)}

\* sorted(xs, key, reverse=True): stable, descending.  before[a, b] holds
\* when a's key is strictly greater than b's.  x is placed after every
\* element whose key is not smaller than its own.
RECURSIVE InsertDesc(_, _, _)
InsertDesc(sorted, x, before) ==
    IF sorted = <<>> THEN <<x>>
    ELSE IF before[x, Head(sorted)] THEN <<x>> \o sorted
    ELSE <<Head(sorted)>> \o InsertDesc(Tail(sorted), x, before)

RECURSIVE SortedDesc(_, _)
SortedDesc(xs, before) ==
    IF xs = <<>> THEN <<>>
    ELSE InsertDesc(SortedDesc(SubSeq(xs, 1, Len(xs) - 1), before),
                    xs[Len(xs)], before)

\* xs[n:]
Drop(xs, n) == IF n >= Len(xs) THEN <<>> ELSE SubSeq(xs, n + 1, Len(xs))

\* ----------------------------------------------------------------- state
VARIABLES
    now,                \* datetime.utcnow(), minutes
    advances,           \* clock advances so far
    stored,             \* MemoryNode objects created so far
    retrievals,         \* retrieve_relevant_memories calls so far
    heap,               \* object id -> MemoryNode fields
    working_memory,     \* deque of object ids, head first
    short_term_memory,  \* dict id -> node, as object ids in insertion order
    memory_graph,       \* defaultdict(list): node id -> <<id, strength>>*
    memory_controller,  \* the MemoryController's fields
    loop_pc,            \* where _consolidation_loop stands
    wake_at,            \* when its asyncio.sleep(60) returns
    to_persist,         \* _consolidate_memories: nodes to persist (objects)
    to_remove,          \* _consolidate_memories: ids to remove
    persist_i,          \* index of the next node of to_persist
    session,            \* rows added to the open session, not committed
    long_term,          \* committed LongTermMemory rows, in commit order
    retrieval,          \* the retrieve_relevant_memories call in flight
    store,              \* history: the last store_interaction call
    evicted,            \* history: the nodes the deque dropped last
    pass,               \* history: the last pass begun, what it selected
    quiet,              \* history: no call since the last committed pass
    returned,           \* history: what the last retrieval returned
    classification      \* history: the last _apply_rule_adjustments call

tiers == <<heap, working_memory, short_term_memory, memory_graph>>
loop == <<loop_pc, wake_at, to_persist, to_remove, persist_i, session>>
history == <<store, evicted, pass, quiet, returned>>
\* PriorityClassificationAgent, which shares no state with the memory.
vars == <<now, advances, stored, retrievals, tiers, memory_controller, loop,
          long_term, retrieval, history, classification>>

\* Mutant: the node is created with the default importance_score, whatever
\* the caller passed.
MemoryNodeDefaultImportance(id, embedding, timestamp, importance, access) ==
    [id |-> id, embedding |-> embedding, timestamp |-> timestamp,
     access_count |-> access, last_accessed |-> timestamp,
     importance_score |-> DefaultImportance, decay_rate |-> DefaultDecay,
     connections |-> <<>>]

\* MemoryNode(id, content, embedding, timestamp, importance_score, ...)
MemoryNode(id, embedding, timestamp, importance, access) ==
    [id |-> id, embedding |-> embedding, timestamp |-> timestamp,
     access_count |-> access, last_accessed |-> timestamp,
     importance_score |-> importance, decay_rate |-> DefaultDecay,
     connections |-> <<>>]

\* MemoryController.__init__
MemoryController(working_size, short_size, interval, t) ==
    [working_memory_size |-> working_size, short_term_size |-> short_size,
     consolidation_interval |-> interval, last_consolidation |-> t]

\* The heap without the objects no list refers to any more.
Collect(h, live) == [o \in (DOMAIN h) \cap live |-> h[o]]

\* The objects the calls in flight refer to.
InFlight == Range(to_persist) \cup {c[1] : c \in Range(retrieval.candidates)}

\* Mutant: access_count is counted, last_accessed is left as it was.
RECURSIVE TouchCountOnly(_, _, _)
TouchCountOnly(h, hits, t) ==
    IF hits = <<>> THEN h
    ELSE LET ref == Head(hits)[1]
         IN  TouchCountOnly(IF ref > 0
                            THEN [h EXCEPT ![ref].access_count = @ + 1]
                            ELSE h,
                            Tail(hits), t)

\* Mutant: append to a deque without maxlen.
DequeAppendUnbounded(dq, x) == Append(dq, x)

\* Mutant: a full deque drops its newest element.
DequeAppendDropsNewest(dq, x) ==
    IF Len(dq) >= WorkingMaxLen
    THEN SubSeq(dq, 1, Len(dq) - 1) \o <<x>> ELSE Append(dq, x)

\* deque.append with maxlen: a full deque drops its head.
DequeAppend(dq, x) ==
    IF Len(dq) >= WorkingMaxLen THEN Tail(dq) \o <<x>> ELSE Append(dq, x)

\* What the history keeps of a node a pass selected or the deque dropped.
Selected(h, o) ==
    [oid |-> o, id |-> h[o].id, importance_score |-> h[o].importance_score,
     access_count |-> h[o].access_count, timestamp |-> h[o].timestamp,
     short_term |-> o \in Range(short_term_memory)]

RECURSIVE SelectedSeq(_, _)
SelectedSeq(h, os) ==
    IF os = <<>> THEN <<>>
    ELSE <<Selected(h, Head(os))>> \o SelectedSeq(h, Tail(os))

\* ------------------------------------------------------ store_interaction
\* Mutant: only the new node gets the connection, not the node it found.
RECURSIVE UpdateMemoryConnectionsOneWay(_, _, _, _)
UpdateMemoryConnectionsOneWay(h, g, new, all_memories) ==
    IF all_memories = <<>> THEN [heap |-> h, graph |-> g]
    ELSE
        LET m == Head(all_memories)
            rest == Tail(all_memories)
            similarity == Similarity(h[new].embedding, h[m].embedding)
        IN  IF h[m].id = h[new].id \/ h[m].embedding = NoEmbedding
            THEN UpdateMemoryConnectionsOneWay(h, g, new, rest)
            ELSE IF similarity > LinkThreshold
            THEN
                LET h1 == [h EXCEPT
                        ![new].connections = Append(@, <<h[m].id, similarity>>)]
                    g1 == [g EXCEPT
                        ![h[new].id] = Append(@, <<h[m].id, similarity>>)]
                IN  UpdateMemoryConnectionsOneWay(h1, g1, new, rest)
            ELSE UpdateMemoryConnectionsOneWay(h, g, new, rest)

\* Mutant: memory_graph gets the entry of the new node only.
RECURSIVE UpdateMemoryConnectionsIndexOneWay(_, _, _, _)
UpdateMemoryConnectionsIndexOneWay(h, g, new, all_memories) ==
    IF all_memories = <<>> THEN [heap |-> h, graph |-> g]
    ELSE
        LET m == Head(all_memories)
            rest == Tail(all_memories)
            similarity == Similarity(h[new].embedding, h[m].embedding)
        IN  IF h[m].id = h[new].id \/ h[m].embedding = NoEmbedding
            THEN UpdateMemoryConnectionsIndexOneWay(h, g, new, rest)
            ELSE IF similarity > LinkThreshold
            THEN
                LET h1 == [h EXCEPT
                        ![new].connections = Append(@, <<h[m].id, similarity>>),
                        ![m].connections = Append(@, <<h[new].id, similarity>>)]
                    g1 == [g EXCEPT
                        ![h[new].id] = Append(@, <<h[m].id, similarity>>)]
                IN  UpdateMemoryConnectionsIndexOneWay(h1, g1, new, rest)
            ELSE UpdateMemoryConnectionsIndexOneWay(h, g, new, rest)

\* Mutant: the loop over all_memories ends with the first connection made.
RECURSIVE UpdateMemoryConnectionsFirstOnly(_, _, _, _)
UpdateMemoryConnectionsFirstOnly(h, g, new, all_memories) ==
    IF all_memories = <<>> THEN [heap |-> h, graph |-> g]
    ELSE
        LET m == Head(all_memories)
            rest == Tail(all_memories)
            similarity == Similarity(h[new].embedding, h[m].embedding)
        IN  IF h[m].id = h[new].id \/ h[m].embedding = NoEmbedding
            THEN UpdateMemoryConnectionsFirstOnly(h, g, new, rest)
            ELSE IF similarity > LinkThreshold
            THEN
                LET h1 == [h EXCEPT
                        ![new].connections = Append(@, <<h[m].id, similarity>>),
                        ![m].connections = Append(@, <<h[new].id, similarity>>)]
                    g1 == [g EXCEPT
                        ![h[new].id] = Append(@, <<h[m].id, similarity>>)]
                    g2 == [g1 EXCEPT
                        ![h[m].id] = Append(@, <<h[new].id, similarity>>)]
                IN  [heap |-> h1, graph |-> g2]
            ELSE UpdateMemoryConnectionsFirstOnly(h, g, new, rest)

\* _update_memory_connections: the loop over all_memories, in order.
RECURSIVE UpdateMemoryConnections(_, _, _, _)
UpdateMemoryConnections(h, g, new, all_memories) ==
    IF all_memories = <<>> THEN [heap |-> h, graph |-> g]
    ELSE
        LET m == Head(all_memories)
            rest == Tail(all_memories)
            similarity == Similarity(h[new].embedding, h[m].embedding)
        IN  IF h[m].id = h[new].id \/ h[m].embedding = NoEmbedding
            THEN UpdateMemoryConnections(h, g, new, rest)
            ELSE IF similarity > LinkThreshold
            THEN
                LET h1 == [h EXCEPT
                        ![new].connections = Append(@, <<h[m].id, similarity>>),
                        ![m].connections = Append(@, <<h[new].id, similarity>>)]
                    g1 == [g EXCEPT
                        ![h[new].id] = Append(@, <<h[m].id, similarity>>)]
                    g2 == [g1 EXCEPT
                        ![h[m].id] = Append(@, <<h[new].id, similarity>>)]
                IN  UpdateMemoryConnections(h1, g2, new, rest)
            ELSE UpdateMemoryConnections(h, g, new, rest)

\* What the history keeps of a store_interaction call: how it ended, its
\* arguments and the node it returned.
NoStore == [outcome |-> "none", message_id |-> 0, importance |-> 0,
            node |-> 0]

\* store_interaction, from the return of create_embedding to its own return.
StoreInteraction(message_id, importance) ==
    /\ stored < MaxStores
    /\ LET oid == stored + 1
           embedding == CreateEmbedding(message_id)
           node == MemoryNode(message_id, embedding, now, importance, 0)
           dq == DequeAppend(working_memory, oid)
           h0 == [o \in (DOMAIN heap) \cup {oid} |->
                    IF o = oid THEN node ELSE heap[o]]
           all_memories == dq \o short_term_memory
           upd == IF embedding = NoEmbedding
                  THEN [heap |-> h0, graph |-> memory_graph]
                  ELSE UpdateMemoryConnections(h0, memory_graph, oid,
                                               all_memories)
       IN  /\ working_memory' = dq
           /\ heap' = Collect(upd.heap, Range(dq) \cup Range(short_term_memory)
                                            \cup InFlight)
           /\ memory_graph' = upd.graph
           /\ evicted' = IF Range(working_memory) \subseteq Range(dq)
                         THEN evicted
                         ELSE SelectedSeq(heap, SelectSeq(working_memory,
                                            LAMBDA o : o \notin Range(dq)))
    /\ stored' = stored + 1
    /\ store' = [outcome |-> "returned", message_id |-> message_id,
                 importance |-> importance, node |-> stored + 1]
    /\ quiet' = FALSE
    /\ UNCHANGED <<now, advances, retrievals, short_term_memory,
                   memory_controller, loop, long_term, retrieval, pass,
                   returned, classification>>

\* store_interaction called without importance: importance: float = 0.5.
StoreInteractionDefault(message_id) ==
    StoreInteraction(message_id, DefaultImportance)

\* Mutant: the node is appended to working_memory before the embedding is
\* awaited, and stays there when create_embedding raises.
StoreEmbeddingRaisesAfterAppend(message_id, importance) ==
    /\ stored < MaxStores
    /\ LET oid == stored + 1
           node == MemoryNode(message_id, NoEmbedding, now, importance, 0)
           dq == DequeAppend(working_memory, oid)
           h0 == [o \in (DOMAIN heap) \cup {oid} |->
                    IF o = oid THEN node ELSE heap[o]]
       IN  /\ working_memory' = dq
           /\ heap' = Collect(h0, Range(dq) \cup Range(short_term_memory)
                                        \cup InFlight)
    /\ stored' = stored + 1
    /\ store' = [outcome |-> "raised", message_id |-> message_id,
                 importance |-> importance, node |-> 0]
    /\ UNCHANGED <<now, advances, retrievals, short_term_memory,
                   memory_graph, memory_controller, loop, long_term,
                   retrieval, evicted, pass, quiet, returned, classification>>

\* store_interaction whose await of create_embedding raises: the exception
\* leaves the call before the node is created.
StoreEmbeddingRaises(message_id, importance) ==
    /\ store' = [outcome |-> "raised", message_id |-> message_id,
                 importance |-> importance, node |-> 0]
    /\ UNCHANGED <<now, advances, stored, retrievals, tiers,
                   memory_controller, loop, long_term, retrieval, evicted,
                   pass, quiet, returned, classification>>

\* ------------------------------------------------------------------ clock
Advance(dt) ==
    /\ advances < MaxAdvances
    /\ now' = now + dt
    /\ advances' = advances + 1
    /\ UNCHANGED <<stored, retrievals, tiers, memory_controller, loop,
                   long_term, retrieval, history, classification>>

\* ---------------------------------------------------- MemoryController
\* timedelta.seconds of a difference of d minutes: the days are left out.
TimedeltaSeconds(d) == (d % DayMinutes) * 60

\* should_consolidate
ShouldConsolidate(ctl, t) ==
    TimedeltaSeconds(t - ctl.last_consolidation) >= ctl.consolidation_interval

\* The Working sort key of a is greater than that of b at time t:
\*   key(m) = m.importance_score * 0.7 + (1.0 / (1 + seconds / 3600)) * 0.3
\* is 7 I / 100 + 18 / (60 + minutes), compared over the common denominator.
WorkingKeyGreater(a, b, t) ==
    LET ma == TimedeltaSeconds(t - a.timestamp) \div 60
        mb == TimedeltaSeconds(t - b.timestamp) \div 60
    IN  7 * a.importance_score * (60 + ma) * (60 + mb) + 1800 * (60 + mb)
          > 7 * b.importance_score * (60 + ma) * (60 + mb) + 1800 * (60 + ma)

\* Mutant: the Short-Term sort without reverse=True.
ShortTermKeyAscending(m) == 0 - m.importance_score * (10 - m.decay_rate)

\* The Short-Term sort key: m.importance_score * (1 - m.decay_rate).
ShortTermKey(m) == m.importance_score * (10 - m.decay_rate)

\* Mutant: the thresholds taken inclusively.
ShouldPersistInclusive(m) ==
    m.importance_score >= PersistImportance \/ m.access_count >= PersistAccess

\* importance_score > 0.7 or access_count > 5
ShouldPersist(m) ==
    m.importance_score > PersistImportance \/ m.access_count > PersistAccess

\* Mutant: the id of a node to persist is put on to_remove as well, so the
\* node is popped before the commit.
RECURSIVE PartitionEvictingPersisted(_, _, _, _)
PartitionEvictingPersisted(h, rest, persist, remove) ==
    IF rest = <<>> THEN [to_persist |-> persist, to_remove |-> remove]
    ELSE PartitionEvictingPersisted(h, Tail(rest),
            IF ShouldPersist(h[Head(rest)]) THEN Append(persist, Head(rest)) ELSE persist,
            Append(remove, h[Head(rest)].id))

\* The loop over short_term_sorted[self.short_term_size:].
RECURSIVE Partition(_, _, _, _)
Partition(h, rest, persist, remove) ==
    IF rest = <<>> THEN [to_persist |-> persist, to_remove |-> remove]
    ELSE IF ShouldPersist(h[Head(rest)])
    THEN Partition(h, Tail(rest), Append(persist, Head(rest)), remove)
    ELSE Partition(h, Tail(rest), persist, Append(remove, h[Head(rest)].id))

\* consolidate_memories(working, short_term) at time t; besides the two lists
\* it returns, the lists it computes on the way.
ConsolidateMemories(h, ctl, working, short_term, t) ==
    LET objs == Range(working) \cup Range(short_term)
        wbefore == [a \in objs, b \in objs |-> WorkingKeyGreater(h[a], h[b], t)]
        working_sorted == SortedDesc(working, wbefore)
        to_short_term == Drop(working_sorted, ctl.working_memory_size)
        all_short_term == short_term \o to_short_term
        sbefore == [a \in objs, b \in objs |->
                        ShortTermKey(h[a]) > ShortTermKey(h[b])]
        short_term_sorted == SortedDesc(all_short_term, sbefore)
        beyond == Drop(short_term_sorted, ctl.short_term_size)
        parts == Partition(h, beyond, <<>>, <<>>)
    IN  [to_persist |-> parts.to_persist, to_remove |-> parts.to_remove,
         working_sorted |-> working_sorted,
         to_short_term |-> to_short_term, beyond |-> beyond]

\* --------------------------------------------- retrieve_relevant_memories
\* One hundredth of similarity as an activation.
ActivationUnit == 100000
\* spread_activation > 0.1
ActivationFloor == 1000000
\* decay_factor: float = 0.7, in tenths.
DecayFactor == 7

\* x is nan, as a similarity or as an activation.
IsNaN(x) == x = NaN \/ x = NaN * ActivationUnit
\* x > y of floats: False when either is nan.
ScoreGreater(x, y) == ~IsNaN(x) /\ ~IsNaN(y) /\ x > y

Min(a, b) == IF a < b THEN a ELSE b
\* max(a, b): b when b > a, else a.
Max(a, b) == IF ScoreGreater(b, a) THEN b ELSE a

\* xs[:n]
Take(xs, n) == SubSeq(xs, 1, Min(n, Len(xs)))

\* Mutant: the node built from a row takes the connections of a node in
\* memory with the row's id.
NodeOfLinked(h, rows, ref) ==
    IF ref > 0 THEN h[ref]
    ELSE LET ltm == rows[-ref]
             same == {o \in DOMAIN h : h[o].id = ltm.id}
         IN  [id |-> ltm.id, embedding |-> ltm.embedding,
              timestamp |-> ltm.created_at,
              access_count |-> ltm.access_count,
              last_accessed |-> ltm.created_at,
              importance_score |-> ltm.importance_score,
              decay_rate |-> DefaultDecay,
              connections |-> IF same = {} THEN <<>>
                              ELSE h[CHOOSE o \in same : TRUE].connections]

\* A candidate is a MemoryNode object of the heap (a positive reference) or
\* the node built from row j of the LongTermMemory query (the reference -j).
NodeOf(h, rows, ref) ==
    IF ref > 0 THEN h[ref]
    ELSE LET ltm == rows[-ref]
         IN  [id |-> ltm.id, embedding |-> ltm.embedding,
              timestamp |-> ltm.created_at,
              access_count |-> ltm.access_count,
              last_accessed |-> ltm.created_at,
              importance_score |-> ltm.importance_score,
              decay_rate |-> DefaultDecay, connections |-> <<>>]

\* Mutant: every node of the tiers is a candidate, with or without embedding.
RECURSIVE TierCandidatesAnyEmbedding(_, _, _)
TierCandidatesAnyEmbedding(h, nodes, q) ==
    IF nodes = <<>> THEN <<>>
    ELSE <<<<Head(nodes), Similarity(q, h[Head(nodes)].embedding)>>>>
            \o TierCandidatesAnyEmbedding(h, Tail(nodes), q)

\* The candidates of the Working and Short-Term tiers, with similarities.
RECURSIVE TierCandidates(_, _, _)
TierCandidates(h, nodes, q) ==
    IF nodes = <<>> THEN <<>>
    ELSE (IF h[Head(nodes)].embedding # NoEmbedding
          THEN <<<<Head(nodes), Similarity(q, h[Head(nodes)].embedding)>>>>
          ELSE <<>>) \o TierCandidates(h, Tail(nodes), q)

\* The candidates of the rows j .. Len(rows) of the LongTermMemory query.
RECURSIVE LongTermCandidates(_, _, _)
LongTermCandidates(rows, j, q) ==
    IF j > Len(rows) THEN <<>>
    ELSE (IF rows[j].embedding # NoEmbedding
          THEN <<<<-j, Similarity(q, rows[j].embedding)>>>>
          ELSE <<>>) \o LongTermCandidates(rows, j + 1, q)

\* Mutant: the sort without reverse=True.
SortByScoreAscending(pairs) ==
    SortedDesc(pairs, [a \in Range(pairs), b \in Range(pairs) |->
                            ScoreGreater(b[2], a[2])])

\* candidates.sort(key=lambda x: x[1], reverse=True).  No key compares
\* greater or smaller than a nan key.
SortByScore(pairs) ==
    SortedDesc(pairs, [a \in Range(pairs), b \in Range(pairs) |->
                            ScoreGreater(a[2], b[2])])

\* activation_scores, a dict in insertion order: <<id, score>>*.
HasScore(scores, id) == \E i \in 1 .. Len(scores) : scores[i][1] = id
ScoreOf(scores, id) ==
    scores[CHOOSE i \in 1 .. Len(scores) : scores[i][1] = id][2]
SetScore(scores, id, v) ==
    IF HasScore(scores, id)
    THEN [i \in 1 .. Len(scores) |->
            IF scores[i][1] = id THEN <<id, v>> ELSE scores[i]]
    ELSE Append(scores, <<id, v>>)

\* self.short_term_memory[id]
ShortTermGet(h, short_term, id) ==
    CHOOSE o \in Range(short_term) : h[o].id = id
ShortTermHas(h, short_term, id) ==
    \E o \in Range(short_term) : h[o].id = id

\* Mutant: the spread without the decay factor.
SpreadActivationNoDecay(activation, strength) ==
    (activation * strength) \div 100

\* current_activation * connection_strength * decay_factor
SpreadActivation(activation, strength) ==
    (((activation * strength) \div 100) * DecayFactor) \div 10

\* Mutant: a connected node of Short-Term is enqueued whenever a spread
\* reaches it, also when its id has a score already.
RECURSIVE SpreadOverEnqueuesScored(_, _, _, _, _, _)
SpreadOverEnqueuesScored(h, short_term, connections, activation, scores, queue) ==
    IF connections = <<>> THEN [scores |-> scores, queue |-> queue]
    ELSE
        LET connected_id == Head(connections)[1]
            spread == SpreadActivation(activation, Head(connections)[2])
            rest == Tail(connections)
            enqueued == IF ShortTermHas(h, short_term, connected_id)
                        THEN Append(queue,
                               <<ShortTermGet(h, short_term, connected_id),
                                 spread>>)
                        ELSE queue
        IN  IF spread > ActivationFloor
            THEN SpreadOverEnqueuesScored(h, short_term, rest, activation,
                    SetScore(scores, connected_id,
                             IF HasScore(scores, connected_id)
                             THEN Max(ScoreOf(scores, connected_id), spread)
                             ELSE spread),
                    enqueued)
            ELSE SpreadOverEnqueuesScored(h, short_term, rest, activation,
                                          scores, queue)

\* The loop over current_memory.connections.
RECURSIVE SpreadOver(_, _, _, _, _, _)
SpreadOver(h, short_term, connections, activation, scores, queue) ==
    IF connections = <<>> THEN [scores |-> scores, queue |-> queue]
    ELSE
        LET connected_id == Head(connections)[1]
            spread == SpreadActivation(activation, Head(connections)[2])
            rest == Tail(connections)
        IN  IF spread > ActivationFloor
            THEN IF HasScore(scores, connected_id)
                 THEN SpreadOver(h, short_term, rest, activation,
                        SetScore(scores, connected_id,
                                 Max(ScoreOf(scores, connected_id), spread)),
                        queue)
                 ELSE SpreadOver(h, short_term, rest, activation,
                        SetScore(scores, connected_id, spread),
                        IF ShortTermHas(h, short_term, connected_id)
                        THEN Append(queue,
                               <<ShortTermGet(h, short_term, connected_id),
                                 spread>>)
                        ELSE queue)
            ELSE SpreadOver(h, short_term, rest, activation, scores, queue)

\* while queue: ...
RECURSIVE SpreadLoop(_, _, _, _, _, _)
SpreadLoop(h, rows, short_term, scores, visited, queue) ==
    IF queue = <<>> THEN scores
    ELSE
        LET current == NodeOf(h, rows, Head(queue)[1])
            activation == Head(queue)[2]
        IN  IF current.id \in visited
            THEN SpreadLoop(h, rows, short_term, scores, visited, Tail(queue))
            ELSE
                LET s == SpreadOver(h, short_term, current.connections,
                                    activation, scores, Tail(queue))
                IN  SpreadLoop(h, rows, short_term, s.scores,
                               visited \cup {current.id}, s.queue)

\* for memory, activation in zip(...): activation_scores[memory.id] = activation
RECURSIVE SeedScores(_, _, _, _)
SeedScores(h, rows, seeds, scores) ==
    IF seeds = <<>> THEN scores
    ELSE SeedScores(h, rows, Tail(seeds),
            SetScore(scores, NodeOf(h, rows, Head(seeds)[1]).id,
                     Head(seeds)[2]))

\* memory_map = {m.id: m for m in seed_memories}, then
\* memory_map.update(self.short_term_memory)
MemoryMapHas(h, rows, short_term, seeds, id) ==
    \/ ShortTermHas(h, short_term, id)
    \/ \E i \in 1 .. Len(seeds) : NodeOf(h, rows, seeds[i][1]).id = id
MemoryMapGet(h, rows, short_term, seeds, id) ==
    IF ShortTermHas(h, short_term, id) THEN ShortTermGet(h, short_term, id)
    ELSE LET last == CHOOSE i \in 1 .. Len(seeds) :
                        /\ NodeOf(h, rows, seeds[i][1]).id = id
                        /\ \A j \in (i + 1) .. Len(seeds) :
                              NodeOf(h, rows, seeds[j][1]).id # id
         IN  seeds[last][1]

\* The result list before its sort: the scored ids the map resolves.
RECURSIVE Resolve(_, _, _, _, _)
Resolve(h, rows, short_term, seeds, scores) ==
    IF scores = <<>> THEN <<>>
    ELSE (IF MemoryMapHas(h, rows, short_term, seeds, Head(scores)[1])
          THEN <<<<MemoryMapGet(h, rows, short_term, seeds, Head(scores)[1]),
                   Head(scores)[2]>>>>
          ELSE <<>>) \o Resolve(h, rows, short_term, seeds, Tail(scores))

\* What the history keeps of the loop: for every node popped and not yet
\* visited, the node, its activation and connections, activation_scores before and
\* after the loop over its connections, and what that loop enqueued.
RECURSIVE SpreadSteps(_, _, _, _, _, _)
SpreadSteps(h, rows, short_term, scores, visited, queue) ==
    IF queue = <<>> THEN <<>>
    ELSE
        LET current == NodeOf(h, rows, Head(queue)[1])
            activation == Head(queue)[2]
        IN  IF current.id \in visited
            THEN SpreadSteps(h, rows, short_term, scores, visited, Tail(queue))
            ELSE
                LET s == SpreadOver(h, short_term, current.connections,
                                    activation, scores, Tail(queue))
                IN  <<[ref |-> Head(queue)[1], activation |-> activation,
                       connections |-> current.connections,
                       before |-> scores, after |-> s.scores,
                       enqueued |-> SubSeq(s.queue, Len(queue), Len(s.queue))]>>
                    \o SpreadSteps(h, rows, short_term, s.scores,
                                   visited \cup {current.id}, s.queue)

\* activation_scores when the queue has run empty.
ActivationScores(h, rows, short_term, seeds) ==
    SpreadLoop(h, rows, short_term, SeedScores(h, rows, seeds, <<>>), {},
               seeds)

\* _spreading_activation(seed_memories, initial_activations)
SpreadingActivation(h, rows, short_term, seeds) ==
    SortByScore(Resolve(h, rows, short_term, seeds,
                        ActivationScores(h, rows, short_term, seeds)))

\* Mutant: a returned node's importance_score is raised with its
\* access_count.
RECURSIVE TouchReinforces(_, _, _)
TouchReinforces(h, hits, t) ==
    IF hits = <<>> THEN h
    ELSE LET ref == Head(hits)[1]
         IN  TouchReinforces(IF ref > 0
                   THEN [h EXCEPT ![ref].access_count = @ + 1,
                                  ![ref].last_accessed = t,
                                  ![ref].importance_score = Min(10, @ + 1)]
                   ELSE h,
                   Tail(hits), t)

\* memory.access_count += 1; memory.last_accessed = datetime.utcnow()
RECURSIVE Touch(_, _, _)
Touch(h, hits, t) ==
    IF hits = <<>> THEN h
    ELSE LET ref == Head(hits)[1]
         IN  Touch(IF ref > 0
                   THEN [h EXCEPT ![ref].access_count = @ + 1,
                                  ![ref].last_accessed = t]
                   ELSE h,
                   Tail(hits), t)

\* What the history keeps of a returned memory.
RECURSIVE Returned(_, _, _)
Returned(h, rows, hits) ==
    IF hits = <<>> THEN <<>>
    ELSE <<[ref |-> Head(hits)[1], id |-> NodeOf(h, rows, Head(hits)[1]).id,
            score |-> Head(hits)[2]]>> \o Returned(h, rows, Tail(hits))

\* Mutant: the top k candidates are the seeds.
TopCandidatesK(candidates, k) == Take(candidates, k)

\* top_candidates = candidates[:k*2]
TopCandidates(candidates, k) == Take(candidates, k * 2)

\* Mutant: the queue takes self.short_term_memory[connected_id] without the
\* test 'connected_id in self.short_term_memory'; the lookup raises KeyError
\* for a newly scored id that Short-Term does not hold.
FinishRetrievalUnguarded(h, short_term, rows, tier_candidates, q, k, t) ==
    LET candidates == SortByScore(tier_candidates
                                  \o LongTermCandidates(rows, 1, q))
        top_candidates == TopCandidates(candidates, k)
        seeds == [i \in 1 .. Len(top_candidates) |->
                    <<top_candidates[i][1],
                      top_candidates[i][2] * ActivationUnit>>]
        steps == SpreadSteps(h, rows, short_term,
                             SeedScores(h, rows, seeds, <<>>), {}, seeds)
        activated_memories == SpreadingActivation(h, rows, short_term, seeds)
        hits == Take(activated_memories, k)
    IN  IF \E i \in 1 .. Len(steps) : \E e \in Range(steps[i].after) :
                /\ ~HasScore(steps[i].before, e[1])
                /\ ~ShortTermHas(h, short_term, e[1])
        THEN [heap |-> h,
              returned |-> [outcome |-> "raised", memories |-> <<>>, k |-> 0,
                            seeds |-> <<>>, scores |-> <<>>, steps |-> <<>>]]
        ELSE [heap |-> Touch(h, hits, t),
              returned |->
                [outcome |-> "returned", memories |-> Returned(h, rows, hits),
                 k |-> k, seeds |-> seeds,
                 scores |-> ActivationScores(h, rows, short_term, seeds),
                 steps |-> steps]]

\* retrieve_relevant_memories from the return of the LongTermMemory query on:
\* tier_candidates were collected before the query was awaited.
FinishRetrieval(h, short_term, rows, tier_candidates, q, k, t) ==
    LET candidates == SortByScore(tier_candidates
                                  \o LongTermCandidates(rows, 1, q))
        top_candidates == TopCandidates(candidates, k)
        seeds == [i \in 1 .. Len(top_candidates) |->
                    <<top_candidates[i][1],
                      top_candidates[i][2] * ActivationUnit>>]
        activated_memories == SpreadingActivation(h, rows, short_term, seeds)
        hits == Take(activated_memories, k)
    IN  [heap |-> Touch(h, hits, t),
         returned |->
            [outcome |-> "returned", memories |-> Returned(h, rows, hits),
             k |-> k, seeds |-> seeds,
             scores |-> ActivationScores(h, rows, short_term, seeds),
             steps |-> SpreadSteps(h, rows, short_term,
                          SeedScores(h, rows, seeds, <<>>), {}, seeds)]]

NoRetrieval == [pc |-> "idle", query |-> 0, k |-> 0, candidates |-> <<>>]
NothingReturned == [outcome |-> "none", memories |-> <<>>, k |-> 0,
                    seeds |-> <<>>, scores |-> <<>>, steps |-> <<>>]

\* retrieve_relevant_memories from the return of create_embedding to the
\* await of the LongTermMemory query.
RetrieveBegin(q, k) ==
    /\ retrievals < MaxRetrievals
    /\ retrieval.pc = "idle"
    /\ retrieval' = [pc |-> "db", query |-> q, k |-> k,
                     candidates |-> TierCandidates(heap,
                         working_memory \o short_term_memory, q)]
    /\ retrievals' = retrievals + 1
    /\ quiet' = FALSE
    /\ UNCHANGED <<now, advances, stored, tiers, memory_controller, loop,
                   long_term, store, evicted, pass, returned, classification>>

\* The LongTermMemory query returns and the call runs to its return.
RetrieveReturns ==
    /\ retrieval.pc = "db"
    /\ LET r == FinishRetrieval(heap, short_term_memory, long_term,
                    retrieval.candidates, retrieval.query, retrieval.k, now)
       IN  /\ heap' = Collect(r.heap, Range(working_memory)
                        \cup Range(short_term_memory) \cup Range(to_persist))
           /\ returned' = r.returned
    /\ retrieval' = NoRetrieval
    /\ quiet' = FALSE
    /\ UNCHANGED <<now, advances, stored, retrievals, working_memory,
                   short_term_memory, memory_graph, memory_controller, loop,
                   long_term, store, evicted, pass, classification>>

\* The LongTermMemory query raises, and so does the call.
RetrieveRaises ==
    /\ retrieval.pc = "db"
    /\ heap' = Collect(heap, Range(working_memory)
                    \cup Range(short_term_memory) \cup Range(to_persist))
    /\ returned' = [NothingReturned EXCEPT !.outcome = "raised"]
    /\ retrieval' = NoRetrieval
    /\ quiet' = FALSE
    /\ UNCHANGED <<now, advances, stored, retrievals, working_memory,
                   short_term_memory, memory_graph, memory_controller, loop,
                   long_term, store, evicted, pass, classification>>

\* ------------------------------------------------- the consolidation loop
\* no: the passes begun; outcome: none, running, committed or error; at: the
\* time it began; failed: 0, or the index of the node of to_persist whose
\* persistence raised, or Len(to_persist) + 1 when the commit raised;
\* after_quiet: it began with no call since a committed pass; retry: the
\* nodes the pass before it was to persist when that pass ended in error.
NoPass == [no |-> 0, outcome |-> "none", at |-> 0, failed |-> 0,
           after_quiet |-> FALSE, retry |-> {},
           beyond |-> <<>>, to_persist |-> <<>>, to_remove |-> <<>>,
           to_short_term |-> <<>>]

\* The history of a pass that begins on result r of consolidate_memories.
PassBegun(h, r) ==
    [no |-> pass.no + 1, outcome |-> "running", at |-> now, failed |-> 0,
     after_quiet |-> quiet,
     retry |-> IF pass.outcome = "error"
               THEN {s.oid : s \in Range(pass.to_persist)} ELSE {},
     beyond |-> SelectedSeq(h, r.beyond),
     to_persist |-> SelectedSeq(h, r.to_persist),
     to_remove |-> r.to_remove,
     to_short_term |-> SelectedSeq(h, r.to_short_term)]

\* _consolidation_loop: the sleep returned and no pass is due.
PollIdle ==
    /\ loop_pc = "sleep"
    /\ now >= wake_at
    /\ ~ShouldConsolidate(memory_controller, now)
    /\ wake_at' = now + PollMinutes
    /\ UNCHANGED <<now, advances, stored, retrievals, tiers,
                   memory_controller, loop_pc, to_persist, to_remove,
                   persist_i, session, long_term, retrieval, history,
                   classification>>

\* Mutant: the loop starts a due pass without awaiting the one in progress.
ConsolidateBeginDetached ==
    /\ loop_pc \in {"sleep", "persist", "commit"}
    /\ now >= wake_at
    /\ ShouldConsolidate(memory_controller, now)
    /\ \E r \in {ConsolidateMemories(heap, memory_controller,
                                      working_memory, short_term_memory,
                                      now)} :
           /\ to_persist' = r.to_persist
           /\ to_remove' = r.to_remove
           /\ pass' = PassBegun(heap, r)
    /\ memory_controller' = [memory_controller EXCEPT
                                !.last_consolidation = now]
    /\ persist_i' = 1
    /\ session' = <<>>
    /\ loop_pc' = "persist"
    /\ UNCHANGED <<now, advances, stored, retrievals, tiers, wake_at,
                   long_term, retrieval, store, evicted, quiet, returned,
                   classification>>

\* _consolidation_loop: the sleep returned and a pass is due;
\* _consolidate_memories up to the opening of the session.
ConsolidateBegin ==
    /\ loop_pc = "sleep"
    /\ now >= wake_at
    /\ ShouldConsolidate(memory_controller, now)
    /\ \E r \in {ConsolidateMemories(heap, memory_controller,
                                      working_memory, short_term_memory,
                                      now)} :
           /\ to_persist' = r.to_persist
           /\ to_remove' = r.to_remove
           /\ pass' = PassBegun(heap, r)
    /\ memory_controller' = [memory_controller EXCEPT
                                !.last_consolidation = now]
    /\ persist_i' = 1
    /\ session' = <<>>
    /\ loop_pc' = "persist"
    /\ UNCHANGED <<now, advances, stored, retrievals, tiers, wake_at,
                   long_term, retrieval, store, evicted, quiet, returned,
                   classification>>

\* LongTermMemory(id=memory.id, ...) of object o with fields m.
LongTermMemory(o, m) ==
    [oid |-> o, id |-> m.id, embedding |-> m.embedding,
     importance_score |-> m.importance_score,
     access_count |-> m.access_count, created_at |-> m.timestamp]

\* _persist_to_long_term of to_persist[persist_i] returns.
PersistToLongTerm ==
    /\ loop_pc = "persist"
    /\ persist_i <= Len(to_persist)
    /\ session' = Append(session,
                    LongTermMemory(to_persist[persist_i],
                                   heap[to_persist[persist_i]]))
    /\ persist_i' = persist_i + 1
    /\ UNCHANGED <<now, advances, stored, retrievals, tiers,
                   memory_controller, loop_pc, wake_at, to_persist,
                   to_remove, long_term, retrieval, history, classification>>

\* Mutant: the exception of a pass is not caught and ends the loop's task.
PassRaisesEndsLoop(failed) ==
    /\ loop_pc' = "ended"
    /\ wake_at' = now + PollMinutes
    /\ session' = <<>>
    /\ to_persist' = <<>>
    /\ to_remove' = <<>>
    /\ persist_i' = 1
    /\ heap' = Collect(heap, Range(working_memory)
                    \cup Range(short_term_memory)
                    \cup {c[1] : c \in Range(retrieval.candidates)})
    /\ pass' = [pass EXCEPT !.outcome = "error", !.failed = failed]
    /\ UNCHANGED <<now, advances, stored, retrievals, working_memory,
                   short_term_memory, memory_graph, memory_controller,
                   long_term, retrieval, store, evicted, quiet, returned,
                   classification>>

\* The pass ends in an exception: the session is left without a commit, the
\* loop logs the error and sleeps again.
PassRaises(failed) ==
    /\ loop_pc' = "sleep"
    /\ wake_at' = now + PollMinutes
    /\ session' = <<>>
    /\ to_persist' = <<>>
    /\ to_remove' = <<>>
    /\ persist_i' = 1
    /\ heap' = Collect(heap, Range(working_memory)
                    \cup Range(short_term_memory)
                    \cup {c[1] : c \in Range(retrieval.candidates)})
    /\ pass' = [pass EXCEPT !.outcome = "error", !.failed = failed]
    /\ UNCHANGED <<now, advances, stored, retrievals, working_memory,
                   short_term_memory, memory_graph, memory_controller,
                   long_term, retrieval, store, evicted, quiet, returned,
                   classification>>

\* _persist_to_long_term of to_persist[persist_i] raises.
PersistFails ==
    /\ loop_pc = "persist"
    /\ persist_i <= Len(to_persist)
    /\ PassRaises(persist_i)

\* self.short_term_memory.pop(memory_id, None) for every id of ids.
PopAll(h, short_term, ids) ==
    SelectSeq(short_term, LAMBDA o : h[o].id \notin Range(ids))

\* The loop over to_persist is over: the ids of to_remove are popped and
\* session.commit() is awaited.
RemoveFromShortTerm ==
    /\ loop_pc = "persist"
    /\ persist_i > Len(to_persist)
    /\ LET st == PopAll(heap, short_term_memory, to_remove)
       IN  /\ short_term_memory' = st
           /\ heap' = Collect(heap, Range(working_memory) \cup Range(st)
                                        \cup InFlight)
    /\ loop_pc' = "commit"
    /\ UNCHANGED <<now, advances, stored, retrievals, working_memory,
                   memory_graph, memory_controller, wake_at, to_persist,
                   to_remove, persist_i, session, long_term, retrieval,
                   history, classification>>

\* session.commit() returns: the rows of the session are durable.
CommitReturns ==
    /\ loop_pc = "commit"
    /\ long_term' = long_term \o session
    /\ loop_pc' = "sleep"
    /\ wake_at' = now + PollMinutes
    /\ session' = <<>>
    /\ to_persist' = <<>>
    /\ to_remove' = <<>>
    /\ persist_i' = 1
    /\ heap' = Collect(heap, Range(working_memory)
                    \cup Range(short_term_memory)
                    \cup {c[1] : c \in Range(retrieval.candidates)})
    /\ pass' = [pass EXCEPT !.outcome = "committed"]
    /\ quiet' = TRUE
    /\ UNCHANGED <<now, advances, stored, retrievals, working_memory,
                   short_term_memory, memory_graph, memory_controller,
                   retrieval, store, evicted, returned, classification>>

\* session.commit() raises.
CommitFails ==
    /\ loop_pc = "commit"
    /\ PassRaises(Len(to_persist) + 1)

\* shutdown: self._consolidation_task.cancel().  CancelledError is raised in
\* the task at the await it is suspended in (the sleep, a
\* _persist_to_long_term, the opening of the session or session.commit()),
\* leaves _consolidate_memories and the session without a commit, and the
\* loop breaks.  A commit cancelled while it is awaited may or may not have
\* taken effect in the database.
Shutdown ==
    /\ loop_pc \in {"sleep", "persist", "commit"}
    /\ loop_pc = "persist" =>
            (persist_i <= Len(to_persist) \/ to_persist = <<>>)
    /\ \E committed \in BOOLEAN :
        /\ committed => loop_pc = "commit"
        /\ long_term' = IF committed THEN long_term \o session ELSE long_term
    /\ loop_pc' = "cancelled"
    /\ session' = <<>>
    /\ to_persist' = <<>>
    /\ to_remove' = <<>>
    /\ persist_i' = 1
    /\ heap' = Collect(heap, Range(working_memory)
                    \cup Range(short_term_memory)
                    \cup {c[1] : c \in Range(retrieval.candidates)})
    /\ pass' = IF loop_pc = "sleep" THEN pass
               ELSE [pass EXCEPT
                        !.outcome = "cancelled",
                        !.failed = IF loop_pc = "commit"
                                   THEN Len(to_persist) + 1 ELSE persist_i]
    /\ UNCHANGED <<now, advances, stored, retrievals, working_memory,
                   short_term_memory, memory_graph, memory_controller,
                   wake_at, retrieval, store, evicted, quiet, returned,
                   classification>>

\* ------------------------------------------- calls that run undisturbed
\* The rows _persist_to_long_term adds for the nodes of a list.
SessionRows(h, nodes) ==
    [i \in 1 .. Len(nodes) |-> LongTermMemory(nodes[i], h[nodes[i]])]

\* One iteration of _consolidation_loop with a due pass, no other call
\* running while it is suspended.  fail_at = 0: nothing raises; fail_at = i:
\* _persist_to_long_term of to_persist[i] raises; fail_at = Len(to_persist)
\* + 1: session.commit() raises.
Consolidate(fail_at) ==
    /\ loop_pc = "sleep"
    /\ now >= wake_at
    /\ ShouldConsolidate(memory_controller, now)
    /\ retrieval.pc = "idle"
    /\ LET r == ConsolidateMemories(heap, memory_controller, working_memory,
                                    short_term_memory, now)
           n == Len(r.to_persist)
           st == IF fail_at = 0 \/ fail_at > n
                 THEN PopAll(heap, short_term_memory, r.to_remove)
                 ELSE short_term_memory
       IN  /\ fail_at \in 0 .. (n + 1)
           /\ short_term_memory' = st
           /\ heap' = Collect(heap, Range(working_memory) \cup Range(st))
           /\ long_term' = IF fail_at = 0
                           THEN long_term \o SessionRows(heap, r.to_persist)
                           ELSE long_term
           /\ pass' = [PassBegun(heap, r) EXCEPT
                          !.outcome = IF fail_at = 0 THEN "committed"
                                      ELSE "error",
                          !.failed = fail_at]
    /\ quiet' = IF fail_at = 0 THEN TRUE ELSE quiet
    /\ memory_controller' = [memory_controller EXCEPT
                                !.last_consolidation = now]
    /\ wake_at' = now + PollMinutes
    /\ UNCHANGED <<now, advances, stored, retrievals, working_memory,
                   memory_graph, loop_pc, to_persist, to_remove, persist_i,
                   session, retrieval, store, evicted, returned,
                   classification>>

\* retrieve_relevant_memories, no other call running while it is suspended.
Retrieve(q, k) ==
    /\ retrievals < MaxRetrievals
    /\ retrieval.pc = "idle"
    /\ loop_pc = "sleep"
    /\ LET r == FinishRetrieval(heap, short_term_memory, long_term,
                    TierCandidates(heap, working_memory \o short_term_memory,
                                   q), q, k, now)
       IN  /\ heap' = r.heap
           /\ returned' = r.returned
    /\ retrievals' = retrievals + 1
    /\ quiet' = FALSE
    /\ UNCHANGED <<now, advances, stored, working_memory, short_term_memory,
                   memory_graph, memory_controller, loop, long_term,
                   retrieval, store, evicted, pass, classification>>

\* retrieve_relevant_memories whose LongTermMemory query raises.
RetrieveQueryRaises ==
    /\ retrievals < MaxRetrievals
    /\ retrieval.pc = "idle"
    /\ loop_pc = "sleep"
    /\ returned' = [NothingReturned EXCEPT !.outcome = "raised"]
    /\ retrievals' = retrievals + 1
    /\ quiet' = FALSE
    /\ UNCHANGED <<now, advances, stored, tiers, memory_controller, loop,
                   long_term, retrieval, store, evicted, pass, classification>>

\* ------------------------------------------- PriorityClassificationAgent
\* Scores are floats of 0.0 to 1.0, here in units of 0.0005.
ScoreOne == 2000
\* The boosts and the penalty of _apply_rule_adjustments.
VipPriorityBoost == 400
VipImportanceBoost == 600
DeadlineUrgencyBoost == 600
DeadlinePriorityBoost == 400
ThreadUrgencyBoost == 200
LowSenderImportance == 600
LowSenderPenalty == 400
\* sender_info.get("importance_score", 0.5)
DefaultSenderImportance == 1000

\* The scores of the parsed LLM response: any three of the range, the
\* priority_score bound by nothing to the other two.
LlmScores == {0, 1700, ScoreOne}
\* sender_info: None, or a dict with or without the keys read.
NoSender == [importance_score |-> 0, given |-> FALSE, is_vip |-> FALSE,
             has_importance |-> FALSE]
SenderInfo(given, is_vip, has_importance, importance_score) ==
    [importance_score |-> importance_score, given |-> given,
     is_vip |-> is_vip, has_importance |-> has_importance]
\* The senders of the calls, as the arguments of SenderInfo.
SenderInfos ==
    {<<FALSE, FALSE, FALSE, 0>>}
    \cup {<<TRUE, v, FALSE, 0>> : v \in BOOLEAN}
    \cup ({TRUE} \X BOOLEAN \X {TRUE} \X {400, 600, 1800})
\* features: the two keys read.
Features(has_deadline, is_thread_active) ==
    [has_deadline |-> has_deadline, is_thread_active |-> is_thread_active]

\* Mutant: the priority_score is left as the boosts and the penalty made it.
ApplyRuleAdjustmentsNoRecalculation(c, features, sender_info) ==
    LET vip == sender_info.given /\ sender_info.is_vip
        c1 == IF vip
              THEN [importance_score |->
                        Min(ScoreOne, c.importance_score + VipImportanceBoost),
                    priority_score |->
                        Min(ScoreOne, c.priority_score + VipPriorityBoost),
                    urgency_score |-> c.urgency_score,
                    key_factors |-> Append(c.key_factors, "VIP sender")]
              ELSE c
        c2 == IF features.has_deadline
              THEN [importance_score |-> c1.importance_score,
                    priority_score |->
                        Min(ScoreOne,
                            c1.priority_score + DeadlinePriorityBoost),
                    urgency_score |->
                        Min(ScoreOne, c1.urgency_score + DeadlineUrgencyBoost),
                    key_factors |->
                        Append(c1.key_factors, "Contains deadline")]
              ELSE c1
        c3 == IF features.is_thread_active
              THEN [importance_score |-> c2.importance_score,
                    priority_score |-> c2.priority_score,
                    urgency_score |->
                        Min(ScoreOne, c2.urgency_score + ThreadUrgencyBoost),
                    key_factors |->
                        Append(c2.key_factors, "Active conversation thread")]
              ELSE c2
        low == /\ sender_info.given
               /\ (IF sender_info.has_importance
                   THEN sender_info.importance_score
                   ELSE DefaultSenderImportance) < LowSenderImportance
    IN  IF low
        THEN [c3 EXCEPT !.priority_score =
                            Max(0, c3.priority_score - LowSenderPenalty)]
        ELSE c3

\* _apply_rule_adjustments(classification, features, sender_info)
ApplyRuleAdjustments(c, features, sender_info) ==
    LET vip == sender_info.given /\ sender_info.is_vip
        c1 == IF vip
              THEN [importance_score |->
                        Min(ScoreOne, c.importance_score + VipImportanceBoost),
                    priority_score |->
                        Min(ScoreOne, c.priority_score + VipPriorityBoost),
                    urgency_score |-> c.urgency_score,
                    key_factors |-> Append(c.key_factors, "VIP sender")]
              ELSE c
        c2 == IF features.has_deadline
              THEN [importance_score |-> c1.importance_score,
                    priority_score |->
                        Min(ScoreOne,
                            c1.priority_score + DeadlinePriorityBoost),
                    urgency_score |->
                        Min(ScoreOne, c1.urgency_score + DeadlineUrgencyBoost),
                    key_factors |->
                        Append(c1.key_factors, "Contains deadline")]
              ELSE c1
        c3 == IF features.is_thread_active
              THEN [importance_score |-> c2.importance_score,
                    priority_score |-> c2.priority_score,
                    urgency_score |->
                        Min(ScoreOne, c2.urgency_score + ThreadUrgencyBoost),
                    key_factors |->
                        Append(c2.key_factors, "Active conversation thread")]
              ELSE c2
        low == /\ sender_info.given
               /\ (IF sender_info.has_importance
                   THEN sender_info.importance_score
                   ELSE DefaultSenderImportance) < LowSenderImportance
        c4 == IF low
              THEN [c3 EXCEPT !.priority_score =
                                Max(0, c3.priority_score - LowSenderPenalty)]
              ELSE c3
    IN  [c4 EXCEPT !.priority_score =
                        (c4.importance_score * 5) \div 10
                            + (c4.urgency_score * 5) \div 10]

\* What the history keeps of a call: the parsed response, the features and
\* the sender it was given, and the classification it returned.
NoClassification ==
    [outcome |-> "none", features |-> <<>>, sender_info |-> NoSender,
     parsed |-> <<>>, adjusted |-> <<>>]

\* classify from the parse of the LLM response to the return of
\* _apply_rule_adjustments.
ApplyRuleAdjustmentsCall(parsed, features, sender_info) ==
    /\ classification' =
            [outcome |-> "adjusted", features |-> features,
             sender_info |-> sender_info, parsed |-> parsed,
             adjusted |-> ApplyRuleAdjustments(parsed, features,
                                               sender_info)]
    /\ UNCHANGED <<now, advances, stored, retrievals, tiers,
                   memory_controller, loop, long_term, retrieval, history>>

\* ---------------------------------------------------------- specifications
\* CognitiveMemorySystem.__init__ and initialize, which creates the task of
\* _consolidation_loop, but for the tiers' contents.
Constructed ==
    /\ now = 0
    /\ advances = 0
    /\ retrievals = 0
    /\ working_memory = <<>>
    /\ memory_graph = [i \in MessageIds \cup SeedIds |-> <<>>]
    /\ loop_pc = "sleep"
    /\ wake_at = PollMinutes
    /\ to_persist = <<>>
    /\ to_remove = <<>>
    /\ persist_i = 1
    /\ session = <<>>
    /\ long_term = <<>>
    /\ retrieval = NoRetrieval
    /\ store = NoStore
    /\ classification = NoClassification
    /\ evicted = <<>>
    /\ pass = NoPass
    /\ quiet = FALSE
    /\ returned = NothingReturned

\* The system as constructed and initialized.
Init ==
    /\ Constructed
    /\ stored = 0
    /\ heap = <<>>
    /\ short_term_memory = <<>>
    /\ memory_controller = MemoryController(DefaultWorkingSize,
                                DefaultShortTermSize, DefaultInterval, 0)

\* The calls run one at a time.
Next ==
    \/ \E m \in MessageIds, i \in Importances : StoreInteraction(m, i)
    \/ \E q \in Embeddings, k \in Ks : Retrieve(q, k)
    \/ RetrieveQueryRaises
    \/ \E dt \in TimeSteps : Advance(dt)
    \/ PollIdle
    \/ \E f \in 0 .. (MaxStores + 1) : Consolidate(f)

Spec == Init /\ [][Next]_vars

\* No code of the repository inserts into short_term_memory, so a system as
\* constructed never has a node there.  The passes of the controller over a
\* Short-Term tier are checked from start states that hold n nodes in it,
\* node o with the id and the embedding of message o and a profile of
\* SeedProfiles.
InitSeeded ==
    /\ Constructed
    /\ \E n \in 0 .. MaxStores :
        /\ stored = n
        /\ short_term_memory = [o \in 1 .. n |-> o]
        /\ \E profile \in [1 .. n -> SeedProfiles] :
              heap = [o \in 1 .. n |->
                        MemoryNode(o, CreateEmbedding(o), 0, profile[o][1],
                                   profile[o][2])]
    /\ memory_controller = MemoryController(DefaultWorkingSize,
                                DefaultShortTermSize, DefaultInterval, 0)

\* The calls interleave at their awaits.
NextAsync ==
    \/ \E m \in MessageIds, i \in Importances : StoreInteraction(m, i)
    \/ \E q \in Embeddings, k \in Ks : RetrieveBegin(q, k)
    \/ RetrieveReturns
    \/ RetrieveRaises
    \/ \E dt \in TimeSteps : Advance(dt)
    \/ PollIdle
    \/ ConsolidateBegin
    \/ PersistToLongTerm
    \/ PersistFails
    \/ RemoveFromShortTerm
    \/ CommitReturns
    \/ CommitFails

SpecAsync == InitSeeded /\ [][NextAsync]_vars

\* A MemoryController constructed with a working_memory_size one below the
\* length of the deque, the rest as in InitSeeded.
InitSmallWorkingSize ==
    /\ Constructed
    /\ \E n \in 0 .. MaxStores :
        /\ stored = n
        /\ short_term_memory = [o \in 1 .. n |-> o]
        /\ \E profile \in [1 .. n -> SeedProfiles] :
              heap = [o \in 1 .. n |->
                        MemoryNode(o, CreateEmbedding(o), 0, profile[o][1],
                                   profile[o][2])]
    /\ memory_controller = MemoryController(DefaultWorkingSize - 1,
                                DefaultShortTermSize, DefaultInterval, 0)

SpecSmallWorkingSize == InitSmallWorkingSize /\ [][NextAsync]_vars

\* The background task alone, over the seeded Short-Term tiers: the clock
\* may also jump by a day (the host suspended, a pass held up by the
\* database).
TaskStep ==
    \/ PollIdle
    \/ ConsolidateBegin
    \/ PersistToLongTerm
    \/ PersistFails
    \/ RemoveFromShortTerm
    \/ CommitReturns
    \/ CommitFails

NextLoop ==
    \/ \E dt \in TimeSteps \cup {DayMinutes} : Advance(dt)
    \/ TaskStep

\* The event loop runs the task whenever what it awaits has completed, and
\* an awaited database call returns or raises.
LoopFairness == WF_vars(TaskStep)

SpecLoop == InitSeeded /\ [][NextLoop]_vars /\ LoopFairness

\* The background task and shutdown.
NextShutdown ==
    \/ NextLoop
    \/ Shutdown

SpecShutdown == InitSeeded /\ [][NextShutdown]_vars

\* Callers that pass any importance to store_interaction, 1.5 among them.
CallerImportances == Importances \cup {15}

NextAnyImportance ==
    \/ \E m \in MessageIds, i \in CallerImportances : StoreInteraction(m, i)
    \/ \E dt \in TimeSteps : Advance(dt)

SpecAnyImportance == Init /\ [][NextAnyImportance]_vars

\* Callers whose text or query may embed to a vector of norm 0.
NextZeroEmbedding ==
    \/ \E m \in MessageIds \cup {ZeroMessage}, i \in Importances :
            StoreInteraction(m, i)
    \/ \E q \in Embeddings \cup {ZeroEmbedding}, k \in Ks : Retrieve(q, k)

SpecZeroEmbedding == Init /\ [][NextZeroEmbedding]_vars

\* Links that outlive their nodes: the passes discard nodes of the seeded
\* Short-Term tiers and the deque drops the oldest node of Working, while
\* the nodes linked to them stay; no call and no pass fails.
NextStale ==
    \/ \E m \in MessageIds, i \in Importances : StoreInteraction(m, i)
    \/ \E q \in Embeddings, k \in Ks : Retrieve(q, k)
    \/ \E dt \in TimeSteps : Advance(dt)
    \/ PollIdle
    \/ Consolidate(0)

SpecStale == InitSeeded /\ [][NextStale]_vars

\* The classifier over every parsed response, features and sender.
NextClassifier ==
    \E p, i, u \in LlmScores, has_deadline, is_thread_active \in BOOLEAN,
       s \in SenderInfos :
        ApplyRuleAdjustmentsCall(
            [importance_score |-> i, priority_score |-> p,
             urgency_score |-> u, key_factors |-> <<>>],
            Features(has_deadline, is_thread_active),
            SenderInfo(s[1], s[2], s[3], s[4]))

SpecClassifier == Init /\ [][NextClassifier]_vars

\* Callers that store every message once: the ids of the nodes created so
\* far are those of the nodes in memory and of the node the deque dropped.
StoredIds ==
    {heap[o].id : o \in DOMAIN heap}
        \cup {evicted[i].id : i \in 1 .. Len(evicted)}

StoreNewInteraction(message_id, importance) ==
    /\ message_id \notin StoredIds
    /\ StoreInteraction(message_id, importance)

NextDistinct ==
    \/ \E m \in SeedIds, i \in Importances : StoreNewInteraction(m, i)
    \/ \E dt \in TimeSteps : Advance(dt)

SpecDistinct == Init /\ [][NextDistinct]_vars

\* A system that runs for more than a day: stores and passes, the calls one
\* at a time, the clock advancing by minutes or by a day.
NextDays ==
    \/ \E m \in MessageIds, i \in Importances : StoreInteraction(m, i)
    \/ \E dt \in TimeSteps \cup {DayMinutes} : Advance(dt)
    \/ PollIdle
    \/ \E f \in 0 .. (MaxStores + 1) : Consolidate(f)

SpecDays == Init /\ [][NextDays]_vars

\* The callers of store_interaction, with and without an importance, and
\* an embedding service that may fail, over the seeded Short-Term tiers.
NextStore ==
    \/ \E m \in MessageIds, i \in Importances : StoreInteraction(m, i)
    \/ \E m \in MessageIds : StoreInteractionDefault(m)
    \/ \E m \in MessageIds, i \in Importances : StoreEmbeddingRaises(m, i)
    \/ \E dt \in TimeSteps : Advance(dt)

SpecStore == InitSeeded /\ [][NextStore]_vars

\* _spreading_activation as a function of its arguments and of the nodes it
\* reads, of which it uses the ids, the connections and whether
\* short_term_memory holds the id.  Nodes 1 and 2 are in Short-Term, node 3
\* in Working; every pair of them is linked or not, with a strength above the
\* link threshold, in both directions.
LinkStrengths == {71, 80}
NodePairs == {{1, 2}, {1, 3}, {2, 3}}
\* The connections of node o of nodes 1 .. n linked with the strengths w.
LinksOf(w, n, o) ==
    LET others == SelectSeq([i \in 1 .. n |-> i],
                            LAMBDA x : x # o /\ w[{o, x}] # 0)
    IN  [i \in 1 .. Len(others) |-> <<others[i], w[{o, others[i]}]>>]

InitSpreading ==
    /\ now = 0
    /\ advances = 0
    /\ retrievals = 0
    /\ loop_pc = "sleep"
    /\ wake_at = PollMinutes
    /\ to_persist = <<>>
    /\ to_remove = <<>>
    /\ persist_i = 1
    /\ session = <<>>
    /\ long_term = <<>>
    /\ retrieval = NoRetrieval
    /\ store = NoStore
    /\ classification = NoClassification
    /\ evicted = <<>>
    /\ pass = NoPass
    /\ quiet = FALSE
    /\ returned = NothingReturned
    /\ stored = 3
    /\ working_memory = <<3>>
    /\ short_term_memory = <<1, 2>>
    /\ \E w \in [NodePairs -> LinkStrengths \cup {0}] :
        /\ heap = [o \in 1 .. 3 |->
                    [MemoryNode(o, CreateEmbedding(o), 0, DefaultImportance,
                                0) EXCEPT !.connections = LinksOf(w, 3, o)]]
        /\ memory_graph = [i \in MessageIds \cup SeedIds |->
                              IF i \in 1 .. 3 THEN LinksOf(w, 3, i) ELSE <<>>]
    /\ memory_controller = MemoryController(DefaultWorkingSize,
                                DefaultShortTermSize, DefaultInterval, 0)

\* Initial activations: similarities 0.9, 0.5 and 0.17 of a query.
SeedActivations == {90 * ActivationUnit, 50 * ActivationUnit,
                    17 * ActivationUnit}
SeedLists ==
    {<<s>> : s \in (1 .. 3) \X SeedActivations}
    \cup {<<s, t>> : s, t \in (1 .. 3) \X SeedActivations}

\* A call of _spreading_activation(seed_memories, initial_activations).
SpreadingActivationCall(seeds) ==
    /\ returned.outcome = "none"
    /\ \A i, j \in 1 .. Len(seeds) : seeds[i][1] = seeds[j][1] => i = j
    /\ returned' =
          [outcome |-> "spread",
           memories |-> Returned(heap, long_term,
                            SpreadingActivation(heap, long_term,
                                                short_term_memory, seeds)),
           k |-> 0, seeds |-> seeds,
           scores |-> ActivationScores(heap, long_term, short_term_memory,
                                       seeds),
           steps |-> SpreadSteps(heap, long_term, short_term_memory,
                        SeedScores(heap, long_term, seeds, <<>>), {}, seeds)]
    /\ UNCHANGED <<now, advances, stored, retrievals, tiers,
                   memory_controller, loop, long_term, retrieval, store,
                   evicted, pass, quiet, classification>>

NextSpreading == \E seeds \in SeedLists : SpreadingActivationCall(seeds)

SpecSpreading == InitSpreading /\ [][NextSpreading]_vars

\* _spreading_activation with nodes built from LongTermMemory rows among
\* its seeds.  The rows are those of an earlier run of the process: row 1
\* has the id of node 1, which was stored again in this run, row 2 an id no
\* node in memory has.
DurableOnlyId == 4
DurableRows ==
    <<LongTermMemory(0, MemoryNode(1, CreateEmbedding(1), 0,
                                   DefaultImportance, 0)),
      LongTermMemory(0, MemoryNode(DurableOnlyId, CreateEmbedding(2), 0,
                                   DefaultImportance, 0))>>

InitDurableSeeds ==
    /\ now = 0
    /\ advances = 0
    /\ retrievals = 0
    /\ loop_pc = "sleep"
    /\ wake_at = PollMinutes
    /\ to_persist = <<>>
    /\ to_remove = <<>>
    /\ persist_i = 1
    /\ session = <<>>
    /\ long_term = DurableRows
    /\ retrieval = NoRetrieval
    /\ store = NoStore
    /\ classification = NoClassification
    /\ evicted = <<>>
    /\ pass = NoPass
    /\ quiet = FALSE
    /\ returned = NothingReturned
    /\ stored = 3
    /\ working_memory = <<3>>
    /\ short_term_memory = <<1, 2>>
    /\ \E w \in [NodePairs -> LinkStrengths \cup {0}] :
        /\ heap = [o \in 1 .. 3 |->
                    [MemoryNode(o, CreateEmbedding(o), 0, DefaultImportance,
                                0) EXCEPT !.connections = LinksOf(w, 3, o)]]
        /\ memory_graph = [i \in MessageIds \cup SeedIds |->
                              IF i \in 1 .. 3 THEN LinksOf(w, 3, i) ELSE <<>>]
    /\ memory_controller = MemoryController(DefaultWorkingSize,
                                DefaultShortTermSize, DefaultInterval, 0)

\* One or two seeds, nodes in memory (1 to 3) or nodes of rows (-1, -2).
DurableSeedLists ==
    LET refs == {-2, -1, 1, 2, 3}
        acts == {90 * ActivationUnit, 50 * ActivationUnit}
    IN  {<<s>> : s \in refs \X acts}
        \cup {<<s, t>> : s, t \in refs \X acts}

NextDurableSeeds ==
    \E seeds \in DurableSeedLists : SpreadingActivationCall(seeds)

SpecDurableSeeds == InitDurableSeeds /\ [][NextDurableSeeds]_vars

\* The background task over a Short-Term tier of three nodes of which nodes
\* 1 and 2 are linked or not, as _update_memory_connections links their
\* embeddings, each node with a profile of SeedProfiles.
InitLinkedShortTerm ==
    /\ now = 0
    /\ advances = 0
    /\ retrievals = 0
    /\ working_memory = <<>>
    /\ loop_pc = "sleep"
    /\ wake_at = PollMinutes
    /\ to_persist = <<>>
    /\ to_remove = <<>>
    /\ persist_i = 1
    /\ session = <<>>
    /\ long_term = <<>>
    /\ retrieval = NoRetrieval
    /\ store = NoStore
    /\ classification = NoClassification
    /\ evicted = <<>>
    /\ pass = NoPass
    /\ quiet = FALSE
    /\ returned = NothingReturned
    /\ stored = 3
    /\ short_term_memory = <<1, 2, 3>>
    /\ \E linked \in BOOLEAN, profile \in [1 .. 3 -> SeedProfiles] :
        LET w == [pr \in NodePairs |->
                    IF linked /\ pr = {1, 2}
                    THEN Similarity(CreateEmbedding(1), CreateEmbedding(2))
                    ELSE 0]
        IN  /\ heap = [o \in 1 .. 3 |->
                        [MemoryNode(o, CreateEmbedding(o), 0, profile[o][1],
                                    profile[o][2])
                            EXCEPT !.connections = LinksOf(w, 3, o)]]
            /\ memory_graph = [i \in MessageIds \cup SeedIds |->
                                IF i \in 1 .. 3 THEN LinksOf(w, 3, i)
                                ELSE <<>>]
    /\ memory_controller = MemoryController(DefaultWorkingSize,
                                DefaultShortTermSize, DefaultInterval, 0)

SpecLinkedLoop == InitLinkedShortTerm /\ [][NextLoop]_vars /\ LoopFairness

\* Memories some of which have no embedding: n nodes in Short-Term, node o
\* with the id of message o and the embedding of message o or none, and a
\* LongTermMemory row with or without embedding; the callers' messages
\* include the one that gets no embedding.
AbsentRows ==
    {<<LongTermMemory(0, MemoryNode(DurableOnlyId, e, 0, DefaultImportance,
                                    0))>> : e \in {NoEmbedding, 2}}

InitAbsentEmbedding ==
    /\ now = 0
    /\ advances = 0
    /\ retrievals = 0
    /\ working_memory = <<>>
    /\ memory_graph = [i \in MessageIds \cup SeedIds |-> <<>>]
    /\ loop_pc = "sleep"
    /\ wake_at = PollMinutes
    /\ to_persist = <<>>
    /\ to_remove = <<>>
    /\ persist_i = 1
    /\ session = <<>>
    /\ long_term \in AbsentRows
    /\ retrieval = NoRetrieval
    /\ store = NoStore
    /\ classification = NoClassification
    /\ evicted = <<>>
    /\ pass = NoPass
    /\ quiet = FALSE
    /\ returned = NothingReturned
    /\ \E n \in 0 .. MaxStores :
        /\ stored = n
        /\ short_term_memory = [o \in 1 .. n |-> o]
        /\ \E e \in [1 .. n -> BOOLEAN] :
              heap = [o \in 1 .. n |->
                        MemoryNode(o, IF e[o] THEN CreateEmbedding(o)
                                              ELSE NoEmbedding,
                                   0, DefaultImportance, 0)]
    /\ memory_controller = MemoryController(DefaultWorkingSize,
                                DefaultShortTermSize, DefaultInterval, 0)

NextAbsentEmbedding ==
    \/ \E m \in MessageIds \cup {AbsentMessage} :
            StoreInteraction(m, DefaultImportance)
    \/ \E q \in Embeddings, k \in Ks : Retrieve(q, k)

SpecAbsentEmbedding ==
    /\ InitAbsentEmbedding
    /\ [][NextAbsentEmbedding]_vars

\* retrieve_relevant_memories as a function of k, of the query and of what
\* the tiers hold: the last node in Working and the others in Short-Term, each
\* with an embedding near the query or far from it, every pair of them
\* linked or not.  With k = 2 the call has four seeds of five candidates.
RetrievalNodes == 5
RetrievalKs == {1, 2}
RetrievalEmbeddings == {1, 3}
RetrievalPairs ==
    {{a, b} : a, b \in 1 .. RetrievalNodes}
        \ {{a} : a \in 1 .. RetrievalNodes}

InitRetrieval ==
    /\ now = 0
    /\ advances = 0
    /\ retrievals = 0
    /\ loop_pc = "sleep"
    /\ wake_at = PollMinutes
    /\ to_persist = <<>>
    /\ to_remove = <<>>
    /\ persist_i = 1
    /\ session = <<>>
    /\ long_term = <<>>
    /\ retrieval = NoRetrieval
    /\ store = NoStore
    /\ classification = NoClassification
    /\ evicted = <<>>
    /\ pass = NoPass
    /\ quiet = FALSE
    /\ returned = NothingReturned
    /\ stored = RetrievalNodes
    /\ working_memory = <<RetrievalNodes>>
    /\ short_term_memory = [o \in 1 .. (RetrievalNodes - 1) |-> o]
    /\ \E w \in [RetrievalPairs -> {0, 80}],
          e \in [1 .. RetrievalNodes -> RetrievalEmbeddings] :
        /\ heap = [o \in 1 .. RetrievalNodes |->
                    [MemoryNode(o, e[o], 0, DefaultImportance, 0)
                        EXCEPT !.connections = LinksOf(w, RetrievalNodes, o)]]
        /\ memory_graph = [i \in 1 .. RetrievalNodes |->
                              LinksOf(w, RetrievalNodes, i)]
    /\ memory_controller = MemoryController(DefaultWorkingSize,
                                DefaultShortTermSize, DefaultInterval, 0)

NextRetrieval == \E q \in Embeddings, k \in RetrievalKs : Retrieve(q, k)

SpecRetrieval == InitRetrieval /\ [][NextRetrieval]_vars

\* ------------------------------------------------------------------ claims
Resident == Range(working_memory) \cup Range(short_term_memory)
Durable == {long_term[i].oid : i \in 1 .. Len(long_term)}
ToPersist == {s.oid : s \in Range(pass.to_persist)}

\* C1: after any sequence of completed store_interaction,
\* retrieve_relevant_memories and consolidation calls the Working tier holds
\* at most working_memory_size nodes and the Short-Term tier at most
\* short_term_size nodes.
C1_TiersWithinCapacity ==
    /\ Len(working_memory) <= memory_controller.working_memory_size
    /\ Len(short_term_memory) <= memory_controller.short_term_size

\* C1: a store into a full Working tier, a retrieval and a pass have run.
C1_Witness ==
    /\ evicted # <<>>
    /\ Len(working_memory) = memory_controller.working_memory_size
    /\ returned.outcome = "returned"
    /\ pass.outcome = "committed"

\* C2: every node id is resident at most once across the Working and
\* Short-Term tiers.
C2_IdResidentOnce ==
    LET live == working_memory \o short_term_memory
    IN  \A i, j \in 1 .. Len(live) :
            heap[live[i]].id = heap[live[j]].id => i = j

RankGreater(a, b, t) ==
    LET ma == t - a.timestamp
        mb == t - b.timestamp
    IN  7 * a.importance_score * (60 + ma) * (60 + mb) + 1800 * (60 + mb)
          > 7 * b.importance_score * (60 + ma) * (60 + mb) + 1800 * (60 + ma)

\* C4, as claimed: a node that leaves the Working tier on an insertion has
\* the lowest rank of the nodes the tier held.
C4_EvictsLowestRanked ==
    [][\A e \in Range(working_memory) \ Range(working_memory') :
         \A o \in Range(working_memory) :
            ~RankGreater(heap[e], heap[o], now)]_vars

\* C4, amended: the node that left the Working tier on the last insertion
\* into a full tier was created before every node the tier holds (object ids
\* are given in creation order): the tier drops its oldest node, whatever the
\* ranks.
C4_EvictsOldest ==
    \A e \in Range(evicted), o \in Range(working_memory) : e.oid < o

\* C4: the tier dropped a node that outranked one it kept: the node kept
\* has the lower importance and is at most ten minutes younger.
C4_Witness ==
    \E e \in Range(evicted), o \in Range(working_memory) :
        /\ e.importance_score = 8
        /\ heap[o].importance_score = 4
        /\ heap[o].timestamp - e.timestamp <= 10

\* C5: a node the Working tier dropped on an insertion is resident in the
\* Short-Term tier, as long as no pass has run.
C5_EvictedToShortTerm ==
    pass.no = 0 =>
        /\ \A e \in Range(evicted) : e.oid \in Range(short_term_memory)
        /\ (evicted # <<>> =>
                Len(working_memory) = memory_controller.working_memory_size)

C7_PersistIffImportantOrAccessed ==
    pass.outcome = "committed" =>
        \A b \in Range(pass.beyond) :
            LET keep == b.importance_score > 7 \/ b.access_count > 5
            IN  /\ keep <=> b.oid \in Durable
                /\ ~keep => b.oid \notin Range(short_term_memory)

\* C7: a committed pass that persisted one node for its importance, one for
\* its access count, and discarded one.
C7_Witness ==
    /\ pass.outcome = "committed"
    /\ \E b \in Range(pass.beyond) :
            b.importance_score = 8 /\ b.access_count = 1 /\ b.oid \in Durable
    /\ \E b \in Range(pass.beyond) :
            /\ b.importance_score = 4 /\ b.access_count = 2
            /\ b.oid \notin Resident \cup Durable

\* C8: a Short-Term node a pass is to persist stays in Short-Term while the
\* pass runs (it cannot leave before the commit) and after the pass ended in
\* an error, and the next pass selects it for persistence again.
C8_PersistBeforeEvict ==
    /\ pass.outcome \in {"running", "error"} =>
            \A s \in Range(pass.to_persist) :
                s.short_term => s.oid \in Range(short_term_memory)
    /\ pass.retry \subseteq ToPersist

\* C8: the pass after a pass whose persistence raised selects the node again.
C8_Witness ==
    /\ pass.retry # {}
    /\ pass.outcome = "running"
    /\ session # <<>>

Running == loop_pc \in {"persist", "commit"}

C12_DueIffIntervalElapsed ==
    ShouldConsolidate(memory_controller, now)
        <=> (now - memory_controller.last_consolidation) * 60
                >= memory_controller.consolidation_interval

\* C13: whenever the loop's sleep has run out, no pass is in progress and
\* the controller reports a pass due, a pass is eventually in progress,
\* whatever the outcome of the passes before.
C13_DuePassEventuallyStarts ==
    (/\ ~Running
     /\ now >= wake_at
     /\ ShouldConsolidate(memory_controller, now)) ~> Running

\* C13: a pass was started after a pass that ended in an error.
C13_Witness ==
    /\ pass.no > 1
    /\ pass.retry # {}
    /\ Running

GraphLinks ==
    UNION {{<<a, memory_graph[a][i][1], memory_graph[a][i][2]>> :
                i \in 1 .. Len(memory_graph[a])} : a \in DOMAIN memory_graph}
NodeLinks ==
    UNION {{<<heap[o].id, heap[o].connections[i][1],
              heap[o].connections[i][2]>> :
                i \in 1 .. Len(heap[o].connections)} : o \in Resident}

\* C15: for every link (A, B, strength) of a resident node or of the
\* adjacency index, the link (B, A, strength) is present too.
C15_LinksSymmetric ==
    \A l \in GraphLinks \cup NodeLinks :
        <<l[2], l[1], l[3]>> \in GraphLinks \cup NodeLinks

\* C15: a resident node has a link to an id no resident node has any more.
C15_Witness ==
    /\ evicted # <<>>
    /\ \E l \in NodeLinks : \A o \in Resident : heap[o].id # l[2]

\* C16: the node N a store_interaction created has a link to a node M
\* resident beside it exactly when their cosine similarity is above 0.7,
\* and the link's strength is that similarity.
C16_LinkedIffSimilar ==
    [][stored' = stored + 1 =>
        \A M \in (Range(working_memory') \cup Range(short_term_memory'))
                    \ {stored'} :
            LET N == heap'[stored']
                sim == Similarity(N.embedding, heap'[M].embedding)
                linked == \E i \in 1 .. Len(N.connections) :
                               N.connections[i][1] = heap'[M].id
            IN  /\ linked <=> sim > 70
                /\ sim > 70 => <<heap'[M].id, sim>> \in Range(N.connections)
    ]_vars

\* C17: the importance of every resident node lies within [0, 1] (in
\* tenths) and every link strength within [0, 1] (in hundredths).
C17_ImportanceAndStrengthInRange ==
    /\ \A o \in Resident : heap[o].importance_score \in 0 .. 10
    /\ \A l \in GraphLinks \cup NodeLinks : l[3] \in 0 .. 100

\* a * strength * 0.7, activations in units of 10^-7, strengths in
\* hundredths.
Spread(a, strength) == (((a * strength) \div 100) * 7) \div 10
MaxOf(S) == CHOOSE x \in S : \A y \in S : y <= x

\* C18: in every pass over the links of a popped node with activation a,
\* a neighbour with a link whose spread a * strength * 0.7 is above 0.1 gets
\* the maximum of its score so far and those spreads as its score; a
\* neighbour with no such link keeps the score it had, or none, and is not
\* enqueued.
C18_SpreadAboveFloorTakesMax ==
    \A i \in 1 .. Len(returned.steps) :
        LET st == returned.steps[i]
            links == Range(st.connections)
        IN  \A n \in {l[1] : l \in links} :
                LET above == {x \in {Spread(st.activation, l[2]) :
                                        l \in {m \in links : m[1] = n}} :
                                x > 1000000}
                    had == HasScore(st.before, n)
                    old == IF had THEN {ScoreOf(st.before, n)} ELSE {}
                IN  IF above = {}
                    THEN /\ HasScore(st.after, n) <=> had
                         /\ had => ScoreOf(st.after, n) = ScoreOf(st.before, n)
                         /\ \A e \in Range(st.enqueued) :
                                heap[e[1]].id # n
                    ELSE /\ HasScore(st.after, n)
                         /\ ScoreOf(st.after, n) = MaxOf(above \cup old)

\* C18: a call in which activation 0.9 over a link of strength 0.8 recorded
\* 0.504, a spread above a neighbour's score replaced that score, and a
\* spread not above 0.1 was dropped.
C18_Witness ==
    /\ \E i \in 1 .. Len(returned.steps) :
        LET st == returned.steps[i]
        IN  /\ st.activation = 9000000
            /\ \E l \in Range(st.connections) :
                    /\ l[2] = 80
                    /\ ~HasScore(st.before, l[1])
                    /\ ScoreOf(st.after, l[1]) = 5040000
    /\ \E i \in 1 .. Len(returned.steps) :
        LET st == returned.steps[i]
        IN  \E l \in Range(st.connections) :
                /\ HasScore(st.before, l[1])
                /\ ScoreOf(st.after, l[1]) > ScoreOf(st.before, l[1])
    /\ \E i \in 1 .. Len(returned.steps) :
        LET st == returned.steps[i]
        IN  \E l \in Range(st.connections) :
                Spread(st.activation, l[2]) <= 1000000

\* The step in which a retrieve_relevant_memories call returns.
RetrievalReturns ==
    /\ returned'.outcome = "returned"
    /\ \/ retrieval.pc = "db" /\ retrieval'.pc = "idle"
       \/ /\ retrieval.pc = "idle"
          /\ retrieval'.pc = "idle"
          /\ retrievals' = retrievals + 1

C20_ReturnedNodesCounted ==
    [][\A o \in (DOMAIN heap) \cap (DOMAIN heap') :
        LET hit == \E i \in 1 .. Len(returned'.memories) :
                        returned'.memories[i].ref = o
        IN  /\ heap'[o].access_count >= heap[o].access_count
            /\ RetrievalReturns =>
                /\ heap'[o].access_count =
                        heap[o].access_count + (IF hit THEN 1 ELSE 0)
                /\ hit => heap'[o].last_accessed = now
    ]_vars

\* C20: a retrieval returned a node some time after it was created, and its
\* last_accessed is the time of the call.
C20_Witness ==
    /\ returned.outcome = "returned"
    /\ \E i \in 1 .. Len(returned.memories) :
        LET o == returned.memories[i].ref
        IN  /\ o \in DOMAIN heap
            /\ heap[o].last_accessed > heap[o].timestamp
            /\ heap[o].access_count > 0

\* C21: a store_interaction call in which create_embedding raised ends in
\* that exception and leaves Working, Short-Term, the links of every node
\* and the adjacency index as they were.
C21_EmbeddingFailureStoresNothing ==
    [][(store' # store /\ store'.outcome = "raised") =>
        /\ working_memory' = working_memory
        /\ short_term_memory' = short_term_memory
        /\ heap' = heap
        /\ memory_graph' = memory_graph
    ]_vars

\* C21: a call failed on a system with nodes in both tiers and links
\* between them.
C21_Witness ==
    /\ store.outcome = "raised"
    /\ working_memory # <<>>
    /\ short_term_memory # <<>>
    /\ \E o \in Range(short_term_memory) : heap[o].connections # <<>>

\* C23: when store_interaction returns, the node it returns is in
\* working_memory, has the importance the caller passed, 0.5 when the caller
\* passed none, decay_rate 0.1, access_count 0 and the id of the message.
C23_StoredNodeAsSupplied ==
    [][/\ (store' # store /\ store'.outcome = "returned") =>
            LET node == heap'[store'.node]
            IN  /\ store'.node \in Range(working_memory')
                /\ node.importance_score = store'.importance
                /\ node.decay_rate = 1
                /\ node.access_count = 0
                /\ node.id = store'.message_id
       /\ \A m \in MessageIds :
            StoreInteractionDefault(m) =>
                heap'[stored'].importance_score = 5
    ]_vars

\* C23: a call with importance 0.8 and a call without importance have
\* returned, the second into a full Working tier.
C23_Witness ==
    /\ store.outcome = "returned"
    /\ store.importance = 5
    /\ evicted # <<>>
    /\ \E o \in Range(working_memory) : heap[o].importance_score = 8

\* C22: a retrieve_relevant_memories call whose LongTermMemory query fails
\* raises nothing: no call ends in the exception of the query, every call
\* that has ended has returned a result.
C22_QueryFailureDegrades ==
    returned.outcome # "raised"

C25_NoTornLinks ==
    \A N \in Range(working_memory) : \A M \in Resident \ {N} :
        LET sim == Similarity(heap[N].embedding, heap[M].embedding)
        IN  (heap[N].id # heap[M].id /\ sim > 70) =>
                /\ <<heap[M].id, sim>> \in Range(heap[N].connections)
                /\ <<heap[N].id, sim>> \in Range(heap[M].connections)
                /\ <<heap[M].id, sim>> \in Range(memory_graph[heap[N].id])
                /\ <<heap[N].id, sim>> \in Range(memory_graph[heap[M].id])

\* C25: the node last stored has links to two nodes, while a pass is
\* suspended in the database and a retrieval awaits its query.
C25_Witness ==
    /\ store.outcome = "returned"
    /\ store.node \in Range(working_memory)
    /\ Len(heap[store.node].connections) >= 2
    /\ loop_pc = "persist"
    /\ retrieval.pc = "db"

\* C26: a pass that begins partitions only nodes beyond the short_term_size
\* cutoff of the Short-Term tier sorted by importance_score * (1 -
\* decay_rate), descending: every node it is to persist or to remove is one
\* of them, they are as many as the tier holds above short_term_size, and
\* each has at least short_term_size nodes of the tier ranked no lower.
C26_TopOfShortTermKept ==
    [][pass'.no = pass.no + 1 =>
        LET size == memory_controller.short_term_size
            tier == Range(short_term_memory)
            beyond == {b.oid : b \in Range(pass'.beyond)}
            key(o) == heap[o].importance_score * (10 - heap[o].decay_rate)
        IN  /\ beyond \subseteq tier
            /\ {s.oid : s \in Range(pass'.to_persist)} \subseteq beyond
            /\ \A id \in Range(pass'.to_remove) :
                    \E o \in beyond : heap[o].id = id
            /\ Cardinality(beyond) = Max(0, Cardinality(tier) - size)
            /\ \A o \in beyond :
                    Cardinality({x \in tier \ {o} : key(x) >= key(o)})
                        >= size
    ]_vars

\* C26: a pass began over three Short-Term nodes, kept the one of highest
\* rank and partitioned the other two, one to persist and one to remove.
C26_Witness ==
    /\ pass.no > 0
    /\ Len(pass.beyond) = 2
    /\ Len(pass.to_persist) = 1
    /\ Len(pass.to_remove) = 1
    /\ \E o \in Range(short_term_memory) :
            /\ heap[o].importance_score = 8
            /\ \A b \in Range(pass.beyond) : b.oid # o

\* C27: the order a pass that begins gives the Working nodes is that of
\* the rank 0.7 * importance + 0.3 / (1 + h), h the hours since the node was
\* created, all of them: no node stands after a node of lower rank, so of
\* two nodes of equal importance the older never stands before the newer.
C27_WorkingOrderedByRank ==
    [][pass'.no = pass.no + 1 =>
        LET working_sorted ==
                ConsolidateMemories(heap, memory_controller, working_memory,
                                    short_term_memory, now).working_sorted
        IN  \A i, j \in 1 .. Len(working_sorted) :
                i < j => ~RankGreater(heap[working_sorted[j]],
                                      heap[working_sorted[i]], now)
    ]_vars

\* C28: the seeds of a retrieval are the 2k candidates of the highest
\* similarity to the query, all of them when there are fewer: each seed is a
\* candidate with its similarity as activation, the seeds are in
\* non-increasing order of similarity, no candidate left out is more similar
\* than a seed, and the queue starts with the first seed.
C28_SeedsAreTop2k ==
    [][(RetrievalReturns /\ retrieval.pc = "db") =>
        LET q == retrieval.query
            cands == Range(retrieval.candidates) \cup
                     {<<0 - j, Similarity(q, long_term[j].embedding)>> :
                        j \in {r \in 1 .. Len(long_term) :
                                 long_term[r].embedding # 0}}
            seeds == returned'.seeds
            seed_refs == {seeds[i][1] : i \in 1 .. Len(seeds)}
        IN  /\ Len(seeds) = Min(2 * retrieval.k, Cardinality(cands))
            /\ Cardinality(seed_refs) = Len(seeds)
            /\ \A i \in 1 .. Len(seeds) :
                    \E c \in cands :
                        seeds[i] = <<c[1], c[2] * 100000>>
            /\ \A i, j \in 1 .. Len(seeds) :
                    i < j => seeds[i][2] >= seeds[j][2]
            /\ \A c \in cands : c[1] \notin seed_refs =>
                    \A i \in 1 .. Len(seeds) : c[2] * 100000 <= seeds[i][2]
            /\ seeds # <<>> =>
                    /\ returned'.steps[1].ref = seeds[1][1]
                    /\ returned'.steps[1].activation = seeds[1][2]
    ]_vars

\* C28: a retrieval with k = 1 took two seeds of different similarity and
\* left a third candidate out.
C28_Witness ==
    /\ returned.outcome = "returned"
    /\ returned.k = 1
    /\ Len(returned.seeds) = 2
    /\ returned.seeds[1][2] > returned.seeds[2][2]
    /\ Cardinality(Resident) = 3
    /\ \E o \in Resident :
            /\ \A i \in 1 .. 2 : returned.seeds[i][1] # o
            /\ heap[o].last_accessed = heap[o].timestamp

\* C29: a node built from a LongTermMemory row that is popped from the queue
\* spreads nothing: the scores are as before and nothing is enqueued; and
\* whatever is enqueued is a node of short_term_memory, never the node of a
\* row and never a neighbour whose id Short-Term does not hold.
C29_DurableNodesAreLeaves ==
    \A i \in 1 .. Len(returned.steps) :
        LET st == returned.steps[i]
            short_ids == {heap[o].id : o \in Range(short_term_memory)}
        IN  /\ st.ref < 0 => (st.after = st.before /\ st.enqueued = <<>>)
            /\ \A e \in Range(st.enqueued) :
                    /\ e[1] \in Range(short_term_memory)
                    /\ \E l \in Range(st.connections) :
                            l[1] = heap[e[1]].id
            /\ \A l \in Range(st.connections) :
                    l[1] \notin short_ids =>
                        \A e \in Range(st.enqueued) : heap[e[1]].id # l[1]

\* C29: in one call the node of a row was popped whose id a linked node in
\* memory has, and the Working node was popped, which enqueued a Short-Term
\* neighbour.
C29_Witness ==
    /\ returned.outcome = "spread"
    /\ \E i \in 1 .. Len(returned.steps) :
            /\ returned.steps[i].ref < 0
            /\ \E o \in DOMAIN heap :
                    /\ heap[o].id = NodeOf(heap, long_term,
                                           returned.steps[i].ref).id
                    /\ heap[o].connections # <<>>
    /\ \E i \in 1 .. Len(returned.steps) :
            /\ returned.steps[i].ref \in Range(working_memory)
            /\ returned.steps[i].enqueued # <<>>

\* C30: a node whose embedding has norm 0 has no links and no node has a
\* link to it, and it is not among the seeds of a retrieval; a retrieval
\* whose query embedding has norm 0 has no seeds at all.
C30_ZeroMagnitudeExcluded ==
    [][/\ \A o \in Range(working_memory') \cup Range(short_term_memory') :
            heap'[o].embedding = ZeroEmbedding =>
                /\ heap'[o].connections = <<>>
                /\ \A l \in UNION {Range(heap'[x].connections) :
                                        x \in DOMAIN heap'} :
                        l[1] # heap'[o].id
       /\ RetrievalReturns =>
            \A i \in 1 .. Len(returned'.seeds) :
                /\ NodeOf(heap', long_term',
                          returned'.seeds[i][1]).embedding # ZeroEmbedding
                /\ ~IsNaN(returned'.seeds[i][2])
       /\ \A k \in Ks :
            Retrieve(ZeroEmbedding, k) => returned'.seeds = <<>>
    ]_vars

\* C31: a node in memory whose embedding is absent has no links, no link
\* names the id of the message that got no embedding, and no candidate and
\* no seed of a retrieval is a node or a row without embedding.
C31_AbsentEmbeddingApart ==
    [][/\ \A o \in Range(working_memory') \cup Range(short_term_memory') :
            /\ heap'[o].embedding = NoEmbedding =>
                    heap'[o].connections = <<>>
            /\ \A l \in Range(heap'[o].connections) : l[1] # AbsentMessage
       /\ \A i \in DOMAIN memory_graph' :
            \A l \in Range(memory_graph'[i]) : l[1] # AbsentMessage
       /\ \A q \in Embeddings :
            \A c \in Range(TierCandidates(heap', working_memory'
                                \o short_term_memory', q)
                           \o LongTermCandidates(long_term', 1, q)) :
                NodeOf(heap', long_term', c[1]).embedding # NoEmbedding
       /\ RetrievalReturns =>
            \A i \in 1 .. Len(returned'.seeds) :
                NodeOf(heap', long_term', returned'.seeds[i][1]).embedding
                    # NoEmbedding
    ]_vars

\* A retrieval has returned seeds while Working holds a node without
\* embedding, stored before a node with one, Short-Term holds a node without
\* embedding and the LongTermMemory row has none.
C31_Witness ==
    /\ returned.outcome = "returned"
    /\ returned.seeds # <<>>
    /\ \E i, j \in 1 .. Len(working_memory) :
        /\ i < j
        /\ heap[working_memory[i]].embedding = NoEmbedding
        /\ heap[working_memory[j]].embedding # NoEmbedding
    /\ \E a \in Range(short_term_memory) : heap[a].embedding = NoEmbedding
    /\ long_term[1].embedding = NoEmbedding

\* The id is that of no node of Working or Short-Term and of no row.
StaleId(h, live, rows, id) ==
    /\ \A o \in live : h[o].id # id
    /\ \A j \in 1 .. Len(rows) : rows[j].id # id

\* C32: a retrieval over links to ids that no tier holds any more returns
\* without raising; no node popped from the queue and no node enqueued has
\* such an id, and no returned entry is for such an id.
C32_StaleLinksAreDeadEnds ==
    [][retrievals' = retrievals + 1 =>
        LET live == Range(working_memory') \cup Range(short_term_memory')
            Stale(id) == StaleId(heap', live, long_term', id)
        IN  /\ returned'.outcome = "returned"
            /\ \A i \in 1 .. Len(returned'.steps) :
                LET st == returned'.steps[i]
                IN  /\ ~Stale(NodeOf(heap', long_term', st.ref).id)
                    /\ \A e \in Range(st.enqueued) : ~Stale(heap'[e[1]].id)
            /\ \A i \in 1 .. Len(returned'.memories) :
                    ~Stale(returned'.memories[i].id)
    ]_vars

\* A retrieval has just returned (it touched a node at the present time,
\* after every store and after the last pass) and it scored an id that no
\* tier holds, reached over a link of a node it popped.
C32_Witness ==
    /\ returned.outcome = "returned"
    /\ \E i \in 1 .. Len(returned.memories) :
        /\ returned.memories[i].ref \in Range(working_memory)
                                        \cup Range(short_term_memory)
        /\ heap[returned.memories[i].ref].last_accessed = now
    /\ \A o \in Range(working_memory) \cup Range(short_term_memory) :
            heap[o].timestamp < now
    /\ pass.no = 0 \/ pass.at < now
    /\ \E i \in 1 .. Len(returned.steps) :
        \E l \in Range(returned.steps[i].connections) :
            /\ StaleId(heap, Range(working_memory)
                            \cup Range(short_term_memory), long_term, l[1])
            /\ HasScore(returned.scores, l[1])

\* An entry of the adjacency index whose two ends are ids of no node of
\* Working or Short-Term.
StaleLinkIndexed ==
    \E i \in DOMAIN memory_graph : \E l \in Range(memory_graph[i]) :
        \A o \in Range(working_memory) \cup Range(short_term_memory) :
            heap[o].id \notin {i, l[1]}

C35_PriorityRecombined ==
    classification.outcome = "adjusted" =>
        classification.adjusted.priority_score * 2
            = classification.adjusted.importance_score
                + classification.adjusted.urgency_score

\* A call for a VIP sender of low importance and a message with a deadline
\* in an active thread, the LLM's priority_score not the mean of its other
\* two scores, and a returned priority_score that differs from the LLM's
\* with the boosts and the penalty applied.
C35_Witness ==
    /\ classification.outcome = "adjusted"
    /\ classification.sender_info.is_vip
    /\ classification.sender_info.has_importance
    /\ classification.sender_info.importance_score < LowSenderImportance
    /\ classification.features.has_deadline
    /\ classification.features.is_thread_active
    /\ classification.parsed.priority_score * 2
            # classification.parsed.importance_score
                + classification.parsed.urgency_score
    /\ classification.adjusted.priority_score
            # ApplyRuleAdjustmentsNoRecalculation(classification.parsed,
                    classification.features,
                    classification.sender_info).priority_score
    /\ classification.adjusted.importance_score
            # classification.parsed.importance_score
    /\ classification.adjusted.urgency_score
            # classification.parsed.urgency_score

\* C36: in a call of _spreading_activation, which returns on every graph of
\* links, no two of the nodes whose connections were followed have the same
\* id, no id was enqueued twice, and no enqueued node has the id of a seed.
C36_ExpandedAndEnqueuedOnce ==
    returned.outcome = "spread" =>
        LET steps == returned.steps
            IdOf(ref) == NodeOf(heap, long_term, ref).id
            enqueued == UNION {{<<i, j>> : j \in 1 .. Len(steps[i].enqueued)} :
                                i \in 1 .. Len(steps)}
            EnqueuedId(e) == IdOf(steps[e[1]].enqueued[e[2]][1])
        IN  /\ \A i, j \in 1 .. Len(steps) :
                    IdOf(steps[i].ref) = IdOf(steps[j].ref) => i = j
            /\ \A e, f \in enqueued :
                    EnqueuedId(e) = EnqueuedId(f) => e = f
            /\ \A e \in enqueued : \A i \in 1 .. Len(returned.seeds) :
                    EnqueuedId(e) # IdOf(returned.seeds[i][1])

\* A call over a cycle: one seed, three nodes expanded, each linked to the
\* other two, so that the last was reached over two links and the seed
\* over two links back.
C36_Witness ==
    /\ returned.outcome = "spread"
    /\ Len(returned.seeds) = 1
    /\ Len(returned.steps) = 3
    /\ \A i \in 1 .. 3 : Len(returned.steps[i].connections) = 2
    /\ Len(returned.steps[1].enqueued) = 2

\* C37: after a call of _spreading_activation with its seeds in descending
\* order of similarity, as retrieve_relevant_memories passes them, the score
\* of every seed's id is at least that seed's similarity, and the score of
\* every other id is above 0.1 and at most 0.7 times the highest similarity
\* of a seed.
C37_ScoresWithinBounds ==
    (/\ returned.outcome = "spread"
     /\ \A i, j \in 1 .. Len(returned.seeds) :
            i < j => returned.seeds[i][2] >= returned.seeds[j][2]) =>
        LET seeds == returned.seeds
            IdOf(ref) == NodeOf(heap, long_term, ref).id
            seed_ids == {IdOf(seeds[i][1]) : i \in 1 .. Len(seeds)}
            highest == MaxOf({seeds[i][2] : i \in 1 .. Len(seeds)})
        IN  /\ \A i \in 1 .. Len(seeds) :
                    ScoreOf(returned.scores, IdOf(seeds[i][1])) >= seeds[i][2]
            /\ \A e \in Range(returned.scores) :
                    e[1] \notin seed_ids =>
                        /\ e[2] > ActivationFloor
                        /\ e[2] * 10 <= DecayFactor * highest

\* C38: a retrieve_relevant_memories call leaves Working, Short-Term, the
\* adjacency index and the LongTermMemory rows as they were, and every node
\* as it was but for the access_count and last_accessed of the nodes it
\* returns.
C38_RetrievalFrame ==
    [][retrievals' = retrievals + 1 =>
        /\ working_memory' = working_memory
        /\ short_term_memory' = short_term_memory
        /\ memory_graph' = memory_graph
        /\ long_term' = long_term
        /\ DOMAIN heap' = DOMAIN heap
        /\ \A o \in DOMAIN heap :
            LET hit == \E i \in 1 .. Len(returned'.memories) :
                            returned'.memories[i].ref = o
            IN  /\ ~hit => heap'[o] = heap[o]
                /\ heap'[o] = [heap[o] EXCEPT
                                !.access_count = heap'[o].access_count,
                                !.last_accessed = heap'[o].last_accessed]
    ]_vars

\* A retrieval has just returned a linked node, and another node in memory
\* was a seed and was not returned.
C38_Witness ==
    /\ returned.outcome = "returned"
    /\ \A o \in Range(working_memory) \cup Range(short_term_memory) :
            heap[o].timestamp < now
    /\ pass.no = 0 \/ pass.at < now
    /\ \E i \in 1 .. Len(returned.memories) :
        LET o == returned.memories[i].ref
        IN  /\ o \in Range(working_memory) \cup Range(short_term_memory)
            /\ heap[o].last_accessed = now
            /\ heap[o].connections # <<>>
    /\ \E i \in 1 .. Len(returned.seeds) :
        LET o == returned.seeds[i][1]
        IN  /\ o \in Range(working_memory) \cup Range(short_term_memory)
            /\ \A j \in 1 .. Len(returned.memories) :
                    returned.memories[j].ref # o
            /\ heap[o].last_accessed < now

\* C39: no node in memory has a link to its own id, and no node has two
\* links to the same id.
C39_LinksFormASet ==
    \A o \in Range(working_memory) \cup Range(short_term_memory) :
        LET connections == heap[o].connections
        IN  /\ \A i \in 1 .. Len(connections) :
                    connections[i][1] # heap[o].id
            /\ \A i, j \in 1 .. Len(connections) :
                    connections[i][1] = connections[j][1] => i = j

\* C40: after store_interaction calls with distinct message ids, the entry
\* of the adjacency index for the id of every node in memory is that node's
\* connections list, entry for entry.
C40_IndexMatchesLinks ==
    \A o \in Range(working_memory) \cup Range(short_term_memory) :
        memory_graph[heap[o].id] = heap[o].connections

\* The deque has dropped a node and a node in memory has a link.
C40_Witness ==
    /\ evicted # <<>>
    /\ \E o \in Range(working_memory) : heap[o].connections # <<>>
    /\ \E o \in Range(working_memory) : heap[o].connections = <<>>
====
